---- MODULE Spec2Model ----
(***************************************************************************)
(* A model of riscvmodel: the architectural state (model.py), the          *)
(* instruction semantics (insn.py) and the instruction codec (isa.py,      *)
(* code.py).                                                               *)
(*                                                                         *)
(* Python integers are unbounded; TLC's are 32-bit signed.  A non-negative *)
(* Python integer n is therefore kept as the pair <<n \div 2^16, n % 2^16>>*)
(* whose low half is a 16-bit digit and whose high half holds the rest, so *)
(* that 32-bit registers, the un-reduced sum pc.value + 4 and the memory   *)
(* words that commit() builds are all represented exactly.                 *)
(***************************************************************************)
EXTENDS Integers, Sequences, FiniteSets, TLC

(***************************************************************************)
(* Bounds of the model.                                                    *)
(***************************************************************************)
\* instructions issued in one run of a pool
MaxSteps == 2
\* highest register index an instruction of a pool names
MaxReg == 2
MaxCalls == 4
\* calls of GoldenUnbuffered.reset in one run, the constructor's included
MaxResets == 2

(***************************************************************************)
(* Program constants.                                                      *)
(***************************************************************************)
\* integer registers of the I base
NumRegs == 32

(***************************************************************************)
(* Integer arithmetic on <<hi, lo>> pairs.                                 *)
(***************************************************************************)
W16 == 2^16

Pow2(k) == 2^k

\* the pair of a non-negative integer below 2^31
Nat2W(n) == <<n \div W16, n % W16>>

\* the 32-bit two's complement pattern of a (possibly negative) small integer
Int2W(k) == <<(k \div W16) % W16, k % W16>>

\* value & 0xFFFFFFFF
Mask32(w) == <<w[1] % W16, w[2]>>

\* a + b, unbounded
AddW(a, b) ==
    LET s == a[2] + b[2]
    IN  <<a[1] + b[1] + (s \div W16), s % W16>>

RECURSIVE BitAnd(_, _)
BitAnd(a, b) ==
    IF a = 0 \/ b = 0 THEN 0
    ELSE (a % 2) * (b % 2) + 2 * BitAnd(a \div 2, b \div 2)

RECURSIVE BitOr(_, _)
BitOr(a, b) ==
    IF a = 0 THEN b
    ELSE IF b = 0 THEN a
    ELSE (IF a % 2 = 1 \/ b % 2 = 1 THEN 1 ELSE 0) + 2 * BitOr(a \div 2, b \div 2)

RECURSIVE BitXor(_, _)
BitXor(a, b) ==
    IF a = 0 THEN b
    ELSE IF b = 0 THEN a
    ELSE ((a + b) % 2) + 2 * BitXor(a \div 2, b \div 2)

AndW(a, b) == <<BitAnd(a[1], b[1]), BitAnd(a[2], b[2])>>
OrW(a, b)  == <<BitOr(a[1], b[1]), BitOr(a[2], b[2])>>
XorW(a, b) == <<BitXor(a[1], b[1]), BitXor(a[2], b[2])>>

\* d << k for a 16-bit d and 0 <= k <= 24, unbounded
ShlSmall(d, k) ==
    IF k < 16 THEN Nat2W(d * Pow2(k))
    ELSE <<d * Pow2(k - 16), 0>>

\* w >> k (logical) for 0 <= k <= 31
ShrW(w, k) ==
    IF k < 16
    THEN <<w[1] \div Pow2(k), (w[2] \div Pow2(k)) + (w[1] % Pow2(k)) * Pow2(16 - k)>>
    ELSE Nat2W(w[1] \div Pow2(k - 16))

\* ~x & 0xFFFFFFFF for a 32-bit x
Not32(x) == <<(W16 - 1) - x[1], (W16 - 1) - x[2]>>

Zero == <<0, 0>>
Four == <<0, 4>>

(***************************************************************************)
(* Instructions: the operand slots of the format classes of isa.py.  A     *)
(* slot the format does not have is 0.  c.mv keeps its source register     *)
(* (rs) in rs2.                                                            *)
(***************************************************************************)
Insn(op, rd, rs1, rs2, imm, aq, rl) ==
    [op |-> op, rd |-> rd, rs1 |-> rs1, rs2 |-> rs2, imm |-> imm, aq |-> aq, rl |-> rl]

NoInsn == Insn("none", 0, 0, 0, 0, 0, 0)

VARIABLES
    intreg,          \* State.intreg: the committed registers
    intreg_updates,  \* the pending register writes of State.intreg
    pc,              \* State.pc
    pc_update,       \* State.pc_update
    memory,          \* State.memory: word index -> word
    memory_update,   \* State.memory_update: <<>> (None) or <<gran, address, data>>
    reserved,        \* the addresses atomic_acquire marked
    phase,           \* position in Model.issue: "idle" | "executed"
    insn,            \* the instruction Model.issue was called with
    source,          \* where the instructions come from: a pool or a test program
    issued,          \* instructions issued so far
    locklog,         \* history: <<address, aq, rl>> of every LR, SC and AMO executed
    rinsn,           \* codec: the instruction object that was randomized
    variant,         \* codec: the Variant handed to randomize and decode
    word,            \* codec: the machine word
    decoded,         \* codec: what decode returned
    stage,           \* codec: "new" | "randomized" | "encoded" | "decoded"
    gpc,             \* GoldenUnbuffered.pc (a Python int)
    resetlog,        \* history: the pcs GoldenUnbuffered.reset was called with
    gissued,         \* GoldenUnbuffered.issued: the in-flight deque
    fetchlog,        \* history: the instructions fetch returned since the last reset
    commitlog,       \* history: the instructions issued and committed on the model
    call,            \* the last call: [op, arg, out, ret], out "return" or an exception
    cnt,             \* Simulator.run: cnt
    storelog         \* history: the stores called on State since the last commit

execvars ==
    <<intreg, intreg_updates, pc, pc_update, memory, memory_update, reserved,
      phase, insn, source, issued, locklog>>

codecvars == <<rinsn, variant, word, decoded, stage>>

drivervars == <<gpc, resetlog, gissued, fetchlog, commitlog, call, cnt, storelog>>

vars == <<execvars, codecvars, drivervars>>

(***************************************************************************)
(* State (model.py).  While Model.issue runs an instruction, the State is  *)
(* the record s:                                                           *)
(*   regs the committed registers,    ru  the pending register writes,     *)
(*   pc   the committed pc,           pcu pc_update,                       *)
(*   mem  the memory dictionary,      mu  memory_update,                   *)
(*   res  the reserved addresses.                                          *)
(* Every statement of an execute() maps the record to the next one, in     *)
(* program order.                                                          *)
(***************************************************************************)

\* a register file with no hard-wired register
Wired_None == {}

\* the hard-wired registers handed to RegisterFile: {0: 0x0}
Wired == {0}

\* RegisterFile.__getitem__: the committed register
RegRead(s, r) == s.regs[r]

\* RegisterFile.__setitem__: a pending write, dropped for a wired register
RegWrite(s, rd, v) ==
    IF rd \in Wired THEN s
    ELSE [s EXCEPT !.ru = Append(@, <<rd, Mask32(v)>>)]

\* an assignment to pc that replaces the committed pc
SetPc_Direct(s, v) == [s EXCEPT !.pc = Mask32(v)]

\* State.__setattr__: an assignment to pc goes to pc_update
SetPc(s, v) == [s EXCEPT !.pcu = Mask32(v)]

\* address >> 2
WordIndex(a) == a[1] * (W16 \div 4) + (a[2] \div 4)

\* "if word not in self.memory: self.memory[word] = randrange(0, 1 << 32)"
Materialize(mem, base, fill) ==
    IF base \in DOMAIN mem THEN mem ELSE (base :> fill) @@ mem

\* the materialising part of lb/lh/lw
Touch(s, a, fill) == [s EXCEPT !.mem = Materialize(@, WordIndex(a), fill)]

\* State.lb on a materialised word
Lb(mem, a) ==
    LET offset == a[2] % 4
    IN  <<0, ShrW(mem[WordIndex(a)], offset * 8)[2] % 256>>

\* State.lh on a materialised word
Lh(mem, a) ==
    LET offset == (a[2] \div 2) % 2
    IN  <<0, ShrW(mem[WordIndex(a)], offset * 16)[2]>>

\* State.lw on a materialised word
Lw(mem, a) == mem[WordIndex(a)]

\* State.sb / sh / sw
Sb(s, a, data) == [s EXCEPT !.mu = <<1, a, <<0, data[2] % 256>> >>]
Sh(s, a, data) == [s EXCEPT !.mu = <<2, a, <<0, data[2]>> >>]
Sw(s, a, data) == [s EXCEPT !.mu = <<4, a, Mask32(data)>>]

\* State.atomic_acquire / atomic_release / atomic_reserved
AtomicAcquire(s, a) == [s EXCEPT !.res = @ \cup {a}]
AtomicRelease(s, a) == [s EXCEPT !.res = @ \ {a}]
AtomicReserved(s, a) == a \in s.res

(***************************************************************************)
(* Register and Immediate arithmetic (32-bit, wrapping).                   *)
(***************************************************************************)
\* Register + Register, Register + int
RegAdd(a, b) == Mask32(AddW(a, b))

\* Register + Immediate (a signed Python integer)
RegAddImm(a, k) == Mask32(AddW(a, Int2W(k)))

\* Immediate << 12 for a 20-bit unsigned immediate
ImmShl12(k) == <<k \div 16, (k % 16) * 4096>>

\* comparison of two .value / .unsigned()
LtU(a, b) == a[1] < b[1] \/ (a[1] = b[1] /\ a[2] < b[2])

\* Register < Register, Register < Immediate: the signed views
LtS(a, b) ==
    LtU(<<(a[1] + \h8000) % W16, a[2]>>, <<(b[1] + \h8000) % W16, b[2]>>)

\* Register >> k: arithmetic, the vacated bits are copies of bit 31
RegShr(a, k) ==
    IF a[1] >= \h8000
    THEN OrW(ShrW(a, k), Not32(ShrW(<<W16 - 1, W16 - 1>>, k)))
    ELSE ShrW(a, k)

(***************************************************************************)
(* execute() of the instruction classes (insn.py).                         *)
(***************************************************************************)
ExecLUI_NoShift(s, i) == RegWrite(s, i.rd, <<0, i.imm % W16>>)

ExecLUI(s, i) == RegWrite(s, i.rd, ImmShl12(i.imm))

ExecAUIPC(s, i) == RegWrite(s, i.rd, RegAdd(s.pc, ImmShl12(i.imm)))

ExecJAL(s, i) ==
    LET s1 == RegWrite(s, i.rd, RegAdd(s.pc, Four))
    IN  SetPc(s1, RegAddImm(s1.pc, i.imm))

\* a jalr whose read of rs1 sees the link value just written to rd
ExecJALR_ReadsPending(s, i) ==
    LET link == RegAdd(s.pc, Four)
        s1 == RegWrite(s, i.rd, link)
        base == IF i.rs1 = i.rd /\ i.rd \notin Wired THEN link ELSE RegRead(s1, i.rs1)
    IN  SetPc(s1, RegAddImm(base, i.imm))

ExecJALR(s, i) ==
    LET s1 == RegWrite(s, i.rd, RegAdd(s.pc, Four))
    IN  SetPc(s1, RegAddImm(RegRead(s1, i.rs1), i.imm))

\* beq, bne, blt, bge compare .value; bltu, bgeu compare .unsigned()
BranchTaken(s, i) ==
    LET a == RegRead(s, i.rs1)
        b == RegRead(s, i.rs2)
    IN  CASE i.op = "beq"  -> a = b
          [] i.op = "bne"  -> a # b
          [] i.op = "blt"  -> LtU(a, b)
          [] i.op = "bge"  -> ~LtU(a, b)
          [] i.op = "bltu" -> LtU(a, b)
          [] i.op = "bgeu" -> ~LtU(a, b)

ExecBranch(s, i) ==
    IF BranchTaken(s, i) THEN SetPc(s, RegAddImm(s.pc, i.imm)) ELSE s

\* (intreg[rs1] + imm).unsigned()
EffAddr(s, i) == RegAddImm(RegRead(s, i.rs1), i.imm)

ExecLB(s, i, fill) ==
    LET s1 == Touch(s, EffAddr(s, i), fill)
        data == Lb(s1.mem, EffAddr(s, i))
    IN  RegWrite(s1, i.rd,
                 IF (data[2] \div 128) % 2 = 1
                 THEN <<W16 - 1, BitOr(data[2], 255 * 256)>> ELSE data)

ExecLH(s, i, fill) ==
    LET s1 == Touch(s, EffAddr(s, i), fill)
        data == Lh(s1.mem, EffAddr(s, i))
    IN  RegWrite(s1, i.rd,
                 IF (data[2] \div 32768) % 2 = 1
                 THEN <<W16 - 1, data[2]>> ELSE data)

ExecLW(s, i, fill) ==
    LET s1 == Touch(s, EffAddr(s, i), fill)
    IN  RegWrite(s1, i.rd, Lw(s1.mem, EffAddr(s, i)))

ExecLBU(s, i, fill) ==
    LET s1 == Touch(s, EffAddr(s, i), fill)
    IN  RegWrite(s1, i.rd, Lb(s1.mem, EffAddr(s, i)))

ExecLHU(s, i, fill) ==
    LET s1 == Touch(s, EffAddr(s, i), fill)
    IN  RegWrite(s1, i.rd, Lh(s1.mem, EffAddr(s, i)))

ExecSB(s, i) == Sb(s, EffAddr(s, i), RegRead(s, i.rs2))
ExecSH(s, i) == Sh(s, EffAddr(s, i), RegRead(s, i.rs2))
ExecSW(s, i) == Sw(s, EffAddr(s, i), RegRead(s, i.rs2))

\* an addi that adds the 12 immediate bits without sign extension
ExecADDI_ZeroExtended(s, i) ==
    RegWrite(s, i.rd, RegAdd(RegRead(s, i.rs1), Nat2W(i.imm % 4096)))

ExecADDI(s, i) == RegWrite(s, i.rd, RegAddImm(RegRead(s, i.rs1), i.imm))

ExecADD(s, i) == RegWrite(s, i.rd, RegAdd(RegRead(s, i.rs1), RegRead(s, i.rs2)))

\* c.addi, c.li, c.mv
ExecCADDI(s, i) == RegWrite(s, i.rd, RegAddImm(RegRead(s, i.rd), i.imm))
ExecCLI(s, i) == RegWrite(s, i.rd, Int2W(i.imm))
ExecCMV(s, i) == RegWrite(s, i.rd, RegRead(s, i.rs2))

\* the lock action with aq tested before rl
LockAction_AcquireFirst(s, i) ==
    IF i.aq # 0 THEN AtomicAcquire(s, RegRead(s, i.rs1))
    ELSE IF i.rl # 0 THEN AtomicRelease(s, RegRead(s, i.rs1))
    ELSE s

\* "if self.rl: atomic_release(...) elif self.aq: atomic_acquire(...)"
LockAction(s, i) ==
    IF i.rl # 0 THEN AtomicRelease(s, RegRead(s, i.rs1))
    ELSE IF i.aq # 0 THEN AtomicAcquire(s, RegRead(s, i.rs1))
    ELSE s

ExecLR(s, i, fill) ==
    LET s1 == Touch(s, RegRead(s, i.rs1), fill)
        s2 == RegWrite(s1, i.rd, Lw(s1.mem, RegRead(s1, i.rs1)))
    IN  LockAction(s2, i)

ExecSC(s, i) ==
    LET s1 == IF AtomicReserved(s, RegRead(s, i.rs1))
              THEN RegWrite(Sw(s, RegRead(s, i.rs1), RegRead(s, i.rs2)), i.rd, Zero)
              ELSE RegWrite(s, i.rd, <<0, 1>>)
    IN  LockAction(s1, i)

\* the value an AMO stores: op(intreg[rs2], intreg[rd])
AmoValue(s, i) ==
    LET a == RegRead(s, i.rs2)
        b == RegRead(s, i.rd)
    IN  CASE i.op = "amoadd"  -> RegAdd(a, b)
          [] i.op = "amoxor"  -> XorW(a, b)
          [] i.op = "amoor"   -> OrW(a, b)
          [] i.op = "amoand"  -> AndW(a, b)
          [] i.op = "amoswap" -> a

ExecAMO(s, i, fill) ==
    LET s1 == Touch(s, RegRead(s, i.rs1), fill)
        s2 == RegWrite(s1, i.rd, Lw(s1.mem, RegRead(s1, i.rs1)))
        s3 == Sw(s2, RegRead(s2, i.rs1), AmoValue(s2, i))
    IN  LockAction(s3, i)

BranchOps == {"beq", "bne", "blt", "bge", "bltu", "bgeu"}
AmoOps == {"amoadd", "amoxor", "amoor", "amoand", "amoswap"}
CompactOps == {"c.addi", "c.li", "c.mv"}
JumpOps == {"jal", "jalr"}

\* insn.execute(...)
\* slti: Register < Immediate; sltiu: unsigned() < int(imm)
ExecSLTI(s, i) ==
    RegWrite(s, i.rd,
             IF LtS(RegRead(s, i.rs1), Int2W(i.imm)) THEN <<0, 1>> ELSE Zero)

ExecSLTIU(s, i) ==
    RegWrite(s, i.rd,
             IF i.imm >= 0 /\ LtU(RegRead(s, i.rs1), Int2W(i.imm))
             THEN <<0, 1>> ELSE Zero)

\* srli: unsigned() >> int(shamt); srai: Register >> shamt (shamt is in imm)
ExecSRLI(s, i) == RegWrite(s, i.rd, ShrW(RegRead(s, i.rs1), i.imm))

ExecSRAI(s, i) == RegWrite(s, i.rd, RegShr(RegRead(s, i.rs1), i.imm))

\* srl: src >> (intreg[rs2] & 0x1f), both Registers
ExecSRL(s, i) ==
    RegWrite(s, i.rd, RegShr(RegRead(s, i.rs1), RegRead(s, i.rs2)[2] % 32))

\* sra: sign_mask | (usrc >> shift); sign_mask = ((2^32 - 1) >> to_clear) << to_clear
\* with to_clear = 32 - shift, which is the complement of (2^32 - 1) >> shift
ExecSRA(s, i) ==
    LET usrc  == RegRead(s, i.rs1)
        shift == RegRead(s, i.rs2)[2] % 32
        sign_mask == IF usrc[1] >= \h8000
                     THEN Not32(ShrW(<<W16 - 1, W16 - 1>>, shift)) ELSE Zero
    IN  RegWrite(s, i.rd, OrW(sign_mask, ShrW(usrc, shift)))

Execute(s, i, fill) ==
    CASE i.op = "lui"    -> ExecLUI(s, i)
      [] i.op = "auipc"  -> ExecAUIPC(s, i)
      [] i.op = "jal"    -> ExecJAL(s, i)
      [] i.op = "jalr"   -> ExecJALR(s, i)
      [] i.op \in BranchOps -> ExecBranch(s, i)
      [] i.op = "lb"     -> ExecLB(s, i, fill)
      [] i.op = "lh"     -> ExecLH(s, i, fill)
      [] i.op = "lw"     -> ExecLW(s, i, fill)
      [] i.op = "lbu"    -> ExecLBU(s, i, fill)
      [] i.op = "lhu"    -> ExecLHU(s, i, fill)
      [] i.op = "sb"     -> ExecSB(s, i)
      [] i.op = "sh"     -> ExecSH(s, i)
      [] i.op = "sw"     -> ExecSW(s, i)
      [] i.op = "addi"   -> ExecADDI(s, i)
      [] i.op = "add"    -> ExecADD(s, i)
      [] i.op = "c.addi" -> ExecCADDI(s, i)
      [] i.op = "c.li"   -> ExecCLI(s, i)
      [] i.op = "c.mv"   -> ExecCMV(s, i)
      [] i.op = "lr"     -> ExecLR(s, i, fill)
      [] i.op = "sc"     -> ExecSC(s, i)
      [] i.op \in AmoOps -> ExecAMO(s, i, fill)
      [] i.op = "slti"   -> ExecSLTI(s, i)
      [] i.op = "sltiu"  -> ExecSLTIU(s, i)
      [] i.op = "srli"   -> ExecSRLI(s, i)
      [] i.op = "srai"   -> ExecSRAI(s, i)
      [] i.op = "srl"    -> ExecSRL(s, i)
      [] i.op = "sra"    -> ExecSRA(s, i)

(***************************************************************************)
(* State.changes and State.commit (model.py).                              *)
(***************************************************************************)
\* RegisterFile.changes: the pending writes that differ from the committed register
RegChanges ==
    SelectSeq(intreg_updates, LAMBDA u : intreg[u[1]] # u[2])

\* "x{} = {}" for every changed register
RegEntries == [k \in 1..Len(RegChanges) |-> <<"x", RegChanges[k][1], RegChanges[k][2]>>]

\* "if self.pc_update.value != self.pc.value + 4"
PcChanged == pc_update # AddW(pc, Four)

PcEntries == IF PcChanged THEN << <<"pc", pc_update>> >> ELSE <<>>

\* "mem[{}] = {}" with the data cut to the width of the store
MemEntries ==
    IF memory_update # <<>>
    THEN << <<"mem", memory_update[2], memory_update[3], memory_update[1]>> >>
    ELSE <<>>

\* State.changes
Changes == RegEntries \o PcEntries \o MemEntries

\* RegisterFile.commit: the pending writes applied in order
RECURSIVE ApplyRegs(_, _)
ApplyRegs(regs, ups) ==
    IF ups = <<>> THEN regs
    ELSE ApplyRegs([regs EXCEPT ![Head(ups)[1]] = Head(ups)[2]], Tail(ups))

\* the word State.commit writes for memory_update mu over the word old
CommitWord(mu, old) ==
    LET offset == mu[2][2] % 4
        mask == Not32(ShlSmall(255, offset * 8))
        shifted == ShlSmall(mu[3][2], offset * 8)
    IN  IF mu[1] = 1 THEN OrW(AndW(old, mask), shifted)
        ELSE IF mu[1] = 2 THEN OrW(AndW(old, mask), shifted)
        ELSE mu[3]

\* the memory part of State.commit
CommitMemory(mem, mu, fill) ==
    IF mu = <<>> THEN mem
    ELSE LET base == WordIndex(mu[2])
             m1 == Materialize(mem, base, fill)
         IN  [m1 EXCEPT ![base] = CommitWord(mu, m1[base])]

\* State.commit as a function of the State record
CommitState(s, fill) ==
    [s EXCEPT !.regs = ApplyRegs(s.regs, s.ru),
              !.ru = <<>>,
              !.pc = s.pcu,
              !.mem = CommitMemory(s.mem, s.mu, fill),
              !.mu = <<>>]

(***************************************************************************)
(* Variant (variant.py): xlen, base integer ISA and the set of extensions. *)
(***************************************************************************)
Variant(xlen, baseint, extensions) ==
    [xlen |-> xlen, baseint |-> baseint, extensions |-> extensions]

RV32I == Variant(32, "I", {})
\* Variant("RV32IZicsr"): the Z name is taken from name.upper()
RV32IZicsr == Variant(32, "I", {"ZICSR"})
RV32IM == Variant(32, "I", {"M"})
RV64I == Variant(64, "I", {})
\* Variant("RV32G"): G expands to G_expand
RV32G == Variant(32, "I", {"I", "M", "A", "F", "D", "Zicsr", "Zifencei"})
\* named by insn.py, not defined by variant.py
RV32A == Variant(32, "I", {"A"})
RV32IZifencei == Variant(32, "I", {"Zifencei"})

\* Variant.__le__
VariantLe_AnyXlen(a, b) ==
    a.baseint = b.baseint /\ a.extensions \subseteq b.extensions

VariantLe(a, b) ==
    a.xlen = b.xlen /\ a.baseint = b.baseint /\ a.extensions \subseteq b.extensions

\* Variant.__eq__
VariantEq(a, b) ==
    a.xlen = b.xlen /\ a.baseint = b.baseint /\ a.extensions = b.extensions

(***************************************************************************)
(* Fields of the instruction formats (isa.py).  A Field is a list of parts *)
(* (base, size) and an offset; the fields named here are static.           *)
(***************************************************************************)
Field(base, size, offset) == [base |-> base, size |-> size, offset |-> offset]

StaticFields == {"opcode", "funct3", "funct5", "funct7"}

\* get_fields: the field_ members of a format class in dir() order
FieldNames(fmt) ==
    CASE fmt = "R"   -> <<"funct3", "funct7", "opcode", "rd", "rs1", "rs2">>
      [] fmt = "I"   -> <<"funct3", "imm", "opcode", "rd", "rs1">>
      [] fmt = "IS"  -> <<"funct3", "funct7", "opcode", "rd", "rs1", "shamt">>
      [] fmt = "S"   -> <<"funct3", "imm", "opcode", "rs1", "rs2">>
      [] fmt = "B"   -> <<"funct3", "imm", "opcode", "rs1", "rs2">>
      [] fmt = "U"   -> <<"imm", "opcode", "rd">>
      [] fmt = "J"   -> <<"imm", "opcode", "rd">>
      [] fmt = "AMO" -> <<"aq", "funct3", "funct5", "opcode", "rd", "rl", "rs1", "rs2">>

FieldOf(fmt, name) ==
    CASE name = "opcode" -> Field(<<0>>, <<7>>, 0)
      [] name = "funct3" -> Field(<<12>>, <<3>>, 0)
      [] name = "funct5" -> Field(<<27>>, <<5>>, 0)
      [] name = "funct7" -> Field(<<25>>, <<7>>, 0)
      [] name = "rd"     -> Field(<<7>>, <<5>>, 0)
      [] name = "rs1"    -> Field(<<15>>, <<5>>, 0)
      [] name = "rs2"    -> Field(<<20>>, <<5>>, 0)
      [] name = "shamt"  -> Field(<<20>>, <<5>>, 0)
      [] name = "rl"     -> Field(<<25>>, <<1>>, 0)
      [] name = "aq"     -> Field(<<26>>, <<1>>, 0)
      [] name = "imm" /\ fmt = "I" -> Field(<<20>>, <<12>>, 0)
      [] name = "imm" /\ fmt = "S" -> Field(<<7, 25>>, <<5, 7>>, 0)
      [] name = "imm" /\ fmt = "B" -> Field(<<7, 25>>, <<5, 7>>, 1)
      [] name = "imm" /\ fmt = "U" -> Field(<<12>>, <<20>>, 0)
      [] name = "imm" /\ fmt = "J" -> Field(<<21, 20, 12, 31>>, <<10, 1, 8, 1>>, 1)

\* the operands that are Immediate objects: Immediate(bits, signed, lsb0)
Immediate(bits, signed, lsb0) == [bits |-> bits, signed |-> signed, lsb0 |-> lsb0]

IsImmediate(name) == name \in {"imm", "shamt"}

ImmediateOf(fmt, name) ==
    CASE name = "shamt" -> Immediate(5, FALSE, FALSE)
      [] name = "imm" /\ fmt \in {"I", "S"} -> Immediate(12, TRUE, FALSE)
      [] name = "imm" /\ fmt = "B" -> Immediate(13, TRUE, TRUE)
      [] name = "imm" /\ fmt = "U" -> Immediate(20, FALSE, FALSE)
      [] name = "imm" /\ fmt = "J" -> Immediate(21, TRUE, TRUE)

\* Immediate.unsigned: the two's complement bit pattern
ImmUnsigned(v, im) == v % Pow2(im.bits)

\* Immediate.set_from_bits: the top bit is the sign of a signed immediate
ImmFromBits(v, im) ==
    LET sign == (v \div Pow2(im.bits - 1)) % 2
    IN  IF im.signed THEN v - sign * Pow2(im.bits) ELSE v

\* (word >> base) & (2**size - 1)
WordBits(w, base, size) ==
    LET s == ShrW(w, base)
    IN  ((s[1] % Pow2(15)) * W16 + s[2]) % Pow2(size)

\* p << base for p below 2**size, base + size <= 32
ShlBits(p, base) ==
    IF base >= 16 THEN <<p * Pow2(base - 16), 0>>
    ELSE <<p \div Pow2(16 - base), (p % Pow2(16 - base)) * Pow2(base)>>

RECURSIVE ExtractParts(_, _, _, _)
ExtractParts(base, size, w, off) ==
    IF base = <<>> THEN 0
    ELSE BitOr(WordBits(w, Head(base), Head(size)) * Pow2(off),
               ExtractParts(Tail(base), Tail(size), w, off + Head(size)))

\* Instruction.extract_field
ExtractField(fmt, name, w) ==
    LET fd == FieldOf(fmt, name)
    IN  ExtractParts(fd.base, fd.size, w, 0) * Pow2(fd.offset)

RECURSIVE SetParts(_, _, _, _, _)
SetParts(base, size, w, value, off) ==
    IF base = <<>> THEN w
    ELSE SetParts(Tail(base), Tail(size),
                  OrW(w, ShlBits((value \div Pow2(off)) % Pow2(Head(size)), Head(base))),
                  value, off + Head(size))

\* Instruction.set_field
SetField(fmt, name, w, value) ==
    LET fd == FieldOf(fmt, name)
    IN  SetParts(fd.base, fd.size, w, value, fd.offset)

(***************************************************************************)
(* The instruction classes (insn.py) in the order get_insns walks the      *)
(* class hierarchy: name, format, variant and the field values the isa     *)
(* decorator sets.  InstructionNOP and the class isa_pseudo wraps around   *)
(* it inherit the mnemonic, variant and field values of InstructionADDI.   *)
(* The classes isa_c wraps get no mnemonic, so get_insns lists none.       *)
(***************************************************************************)
Cls(name, fmt, v, value) == [name |-> name, fmt |-> fmt, variant |-> v, value |-> value]

Classes ==
    <<
        Cls("InstructionADD", "R", RV32I, "opcode" :> 51 @@ "funct3" :> 0 @@ "funct7" :> 0),
        Cls("InstructionSUB", "R", RV32I, "opcode" :> 51 @@ "funct3" :> 0 @@ "funct7" :> 32),
        Cls("InstructionSLL", "R", RV32I, "opcode" :> 51 @@ "funct3" :> 1 @@ "funct7" :> 0),
        Cls("InstructionSLT", "R", RV32I, "opcode" :> 51 @@ "funct3" :> 2 @@ "funct7" :> 0),
        Cls("InstructionSLTU", "R", RV32I, "opcode" :> 51 @@ "funct3" :> 3 @@ "funct7" :> 0),
        Cls("InstructionXOR", "R", RV32I, "opcode" :> 51 @@ "funct3" :> 4 @@ "funct7" :> 0),
        Cls("InstructionSRL", "R", RV32I, "opcode" :> 51 @@ "funct3" :> 5 @@ "funct7" :> 0),
        Cls("InstructionSRA", "R", RV32I, "opcode" :> 51 @@ "funct3" :> 5 @@ "funct7" :> 32),
        Cls("InstructionOR", "R", RV32I, "opcode" :> 51 @@ "funct3" :> 6 @@ "funct7" :> 0),
        Cls("InstructionAND", "R", RV32I, "opcode" :> 51 @@ "funct3" :> 7 @@ "funct7" :> 0),
        Cls("InstructionMUL", "R", RV32IM, "opcode" :> 51 @@ "funct3" :> 0 @@ "funct7" :> 1),
        Cls("InstructionMULH", "R", RV32IM, "opcode" :> 51 @@ "funct3" :> 1 @@ "funct7" :> 1),
        Cls("InstructionMULHSU", "R", RV32IM, "opcode" :> 51 @@ "funct3" :> 2 @@ "funct7" :> 1),
        Cls("InstructionMULHU", "R", RV32IM, "opcode" :> 51 @@ "funct3" :> 3 @@ "funct7" :> 1),
        Cls("InstructionDIV", "R", RV32IM, "opcode" :> 51 @@ "funct3" :> 4 @@ "funct7" :> 1),
        Cls("InstructionDIVU", "R", RV32IM, "opcode" :> 51 @@ "funct3" :> 5 @@ "funct7" :> 1),
        Cls("InstructionREM", "R", RV32IM, "opcode" :> 51 @@ "funct3" :> 6 @@ "funct7" :> 1),
        Cls("InstructionREMU", "R", RV32IM, "opcode" :> 51 @@ "funct3" :> 7 @@ "funct7" :> 1),
        Cls("InstructionLB", "I", RV32I, "opcode" :> 3 @@ "funct3" :> 0),
        Cls("InstructionLH", "I", RV32I, "opcode" :> 3 @@ "funct3" :> 1),
        Cls("InstructionLW", "I", RV32I, "opcode" :> 3 @@ "funct3" :> 2),
        Cls("InstructionLBU", "I", RV32I, "opcode" :> 3 @@ "funct3" :> 4),
        Cls("InstructionLHU", "I", RV32I, "opcode" :> 3 @@ "funct3" :> 5),
        Cls("InstructionJALR", "I", RV32I, "opcode" :> 103 @@ "funct3" :> 0),
        Cls("InstructionADDI", "I", RV32I, "opcode" :> 19 @@ "funct3" :> 0),
        Cls("InstructionNOP", "I", RV32I, "opcode" :> 19 @@ "funct3" :> 0),
        Cls("InstructionNOP", "I", RV32I, "opcode" :> 19 @@ "funct3" :> 0),
        Cls("InstructionSLTI", "I", RV32I, "opcode" :> 19 @@ "funct3" :> 2),
        Cls("InstructionSLTIU", "I", RV32I, "opcode" :> 19 @@ "funct3" :> 3),
        Cls("InstructionXORI", "I", RV32I, "opcode" :> 19 @@ "funct3" :> 4),
        Cls("InstructionORI", "I", RV32I, "opcode" :> 19 @@ "funct3" :> 6),
        Cls("InstructionANDI", "I", RV32I, "opcode" :> 19 @@ "funct3" :> 7),
        Cls("InstructionFENCE", "I", RV32I, "opcode" :> 15 @@ "funct3" :> 0),
        Cls("InstructionFENCEI", "I", RV32IZifencei, "opcode" :> 15 @@ "funct3" :> 1),
        Cls("InstructionECALL", "I", RV32I, "opcode" :> 115 @@ "funct3" :> 0 @@ "imm" :> 0 @@ "rd" :> 0 @@ "rs1" :> 0),
        Cls("InstructionURET", "I", RV32I, "opcode" :> 115 @@ "funct3" :> 0 @@ "imm" :> 2 @@ "rs1" :> 0 @@ "rd" :> 0),
        Cls("InstructionSRET", "I", RV32I, "opcode" :> 115 @@ "funct3" :> 0 @@ "imm" :> 258 @@ "rs1" :> 0 @@ "rd" :> 0),
        Cls("InstructionHRET", "I", RV32I, "opcode" :> 115 @@ "funct3" :> 0 @@ "imm" :> 514 @@ "rs1" :> 0 @@ "rd" :> 0),
        Cls("InstructionMRET", "I", RV32I, "opcode" :> 115 @@ "funct3" :> 0 @@ "imm" :> 770 @@ "rs1" :> 0 @@ "rd" :> 0),
        Cls("InstructionWFI", "I", RV32I, "opcode" :> 115 @@ "funct3" :> 0 @@ "imm" :> 261 @@ "rs1" :> 0 @@ "rd" :> 0),
        Cls("InstructionEBREAK", "I", RV32I, "opcode" :> 115 @@ "funct3" :> 0 @@ "imm" :> 1),
        Cls("InstructionCSRRW", "I", RV32IZicsr, "opcode" :> 115 @@ "funct3" :> 1),
        Cls("InstructionCSRRS", "I", RV32IZicsr, "opcode" :> 115 @@ "funct3" :> 2),
        Cls("InstructionCSRRC", "I", RV32IZicsr, "opcode" :> 115 @@ "funct3" :> 3),
        Cls("InstructionLWU", "I", RV64I, "opcode" :> 3 @@ "funct3" :> 6),
        Cls("InstructionLD", "I", RV64I, "opcode" :> 3 @@ "funct3" :> 3),
        Cls("InstructionSLLI", "IS", RV32I, "opcode" :> 19 @@ "funct3" :> 1 @@ "funct7" :> 0),
        Cls("InstructionSRLI", "IS", RV32I, "opcode" :> 19 @@ "funct3" :> 5 @@ "funct7" :> 0),
        Cls("InstructionSRAI", "IS", RV32I, "opcode" :> 19 @@ "funct3" :> 5 @@ "funct7" :> 32),
        Cls("InstructionSD", "IS", RV64I, "opcode" :> 35 @@ "funct3" :> 3),
        Cls("InstructionSB", "S", RV32I, "opcode" :> 35 @@ "funct3" :> 0),
        Cls("InstructionSH", "S", RV32I, "opcode" :> 35 @@ "funct3" :> 1),
        Cls("InstructionSW", "S", RV32I, "opcode" :> 35 @@ "funct3" :> 2),
        Cls("InstructionBEQ", "B", RV32I, "opcode" :> 99 @@ "funct3" :> 0),
        Cls("InstructionBNE", "B", RV32I, "opcode" :> 99 @@ "funct3" :> 1),
        Cls("InstructionBLT", "B", RV32I, "opcode" :> 99 @@ "funct3" :> 4),
        Cls("InstructionBGE", "B", RV32I, "opcode" :> 99 @@ "funct3" :> 5),
        Cls("InstructionBLTU", "B", RV32I, "opcode" :> 99 @@ "funct3" :> 6),
        Cls("InstructionBGEU", "B", RV32I, "opcode" :> 99 @@ "funct3" :> 7),
        Cls("InstructionLR", "AMO", RV32A, "opcode" :> 47 @@ "funct5" :> 2 @@ "funct3" :> 2),
        Cls("InstructionSC", "AMO", RV32A, "opcode" :> 47 @@ "funct5" :> 3 @@ "funct3" :> 2),
        Cls("InstructionAMOADD", "AMO", RV32A, "opcode" :> 47 @@ "funct5" :> 0 @@ "funct3" :> 2),
        Cls("InstructionAMOXOR", "AMO", RV32A, "opcode" :> 47 @@ "funct5" :> 4 @@ "funct3" :> 2),
        Cls("InstructionAMOOR", "AMO", RV32A, "opcode" :> 47 @@ "funct5" :> 8 @@ "funct3" :> 2),
        Cls("InstructionAMOAND", "AMO", RV32A, "opcode" :> 47 @@ "funct5" :> 12 @@ "funct3" :> 2),
        Cls("InstructionAMOMIN", "AMO", RV32A, "opcode" :> 47 @@ "funct5" :> 16 @@ "funct3" :> 2),
        Cls("InstructionAMOMAX", "AMO", RV32A, "opcode" :> 47 @@ "funct5" :> 20 @@ "funct3" :> 2),
        Cls("InstructionAMOMINU", "AMO", RV32A, "opcode" :> 47 @@ "funct5" :> 24 @@ "funct3" :> 2),
        Cls("InstructionAMOMAXU", "AMO", RV32A, "opcode" :> 47 @@ "funct5" :> 28 @@ "funct3" :> 2),
        Cls("InstructionAMOSWAP", "AMO", RV32A, "opcode" :> 47 @@ "funct5" :> 1 @@ "funct3" :> 2),
        Cls("InstructionLUI", "U", RV32I, "opcode" :> 55),
        Cls("InstructionAUIPC", "U", RV32I, "opcode" :> 23),
        Cls("InstructionJAL", "J", RV32I, "opcode" :> 111)
    >>

\* get_insns(variant=v): the indices of the classes whose variant is <= v
GetInsns(v) ==
    SelectSeq([k \in 1..Len(Classes) |-> k], LAMBDA k : VariantLe(Classes[k].variant, v))

\* get_insns(cls=InstructionCType)
CompactInsns == <<>>

\* a match that looks at no field
Match_Always(c, w) == TRUE

\* Instruction.match: every static field has its declared value
Match(c, w) ==
    \A k \in 1..Len(FieldNames(c.fmt)) :
        LET f == FieldNames(c.fmt)[k]
        IN  f \in StaticFields =>
                f \in DOMAIN c.value /\ ExtractField(c.fmt, f, w) = c.value[f]

\* an instruction object: its class (index in Classes) and its operands
Obj(cls, ops) == [cls |-> cls, ops |-> ops]

NoObj == Obj(0, [f \in {} |-> 0])

MachineDecodeError == Obj(-1, [f \in {} |-> 0])

\* "icls._match(word)": the classes have no _match
AttributeError == Obj(-2, [f \in {} |-> 0])

\* the operand attributes of a format
OperandNames(fmt) ==
    {FieldNames(fmt)[k] : k \in 1..Len(FieldNames(fmt))} \ StaticFields

InstructionDecode_RawBits(cls, w) ==
    Obj(cls, [f \in OperandNames(Classes[cls].fmt) |-> ExtractField(Classes[cls].fmt, f, w)])

\* Instruction.decode: every non-static field is set from the word
InstructionDecode(cls, w) ==
    LET fmt == Classes[cls].fmt
    IN  Obj(cls, [f \in OperandNames(fmt) |->
                    IF IsImmediate(f)
                    THEN ImmFromBits(ExtractField(fmt, f, w), ImmediateOf(fmt, f))
                    ELSE ExtractField(fmt, f, w)])

RECURSIVE EncodeFields(_, _, _, _)
EncodeFields(c, ops, fs, w) ==
    IF fs = <<>> THEN w
    ELSE LET f == Head(fs)
             v == IF f \in DOMAIN c.value THEN c.value[f]
                  ELSE IF IsImmediate(f) THEN ImmUnsigned(ops[f], ImmediateOf(c.fmt, f))
                  ELSE ops[f]
         IN  EncodeFields(c, ops, Tail(fs), SetField(c.fmt, f, w, v))

\* Instruction.encode
Encode(o) ==
    EncodeFields(Classes[o.cls], o.ops, FieldNames(Classes[o.cls].fmt), Zero)

\* code.decode
Decode(w, v) ==
    IF w[2] % 4 # 3
    THEN IF CompactInsns = <<>> THEN MachineDecodeError ELSE AttributeError
    ELSE LET opcode == w[2] % 128
             hits == SelectSeq(GetInsns(v),
                        LAMBDA k : Classes[k].value["opcode"] = opcode /\ Match(Classes[k], w))
         IN  IF hits = <<>> THEN MachineDecodeError
             ELSE InstructionDecode(Head(hits), w)

(***************************************************************************)
(* randomize(variant) of the format classes, on representative values.     *)
(***************************************************************************)
\* randrange(0, variant.xlen)
RandRange(v) == {0, 1, v.xlen - 1}

\* Immediate.randomize: a value of [min, max], its low bit cleared for lsb0
ImmRandom(im) ==
    LET min == IF im.signed THEN -Pow2(im.bits - 1) ELSE 0
        max == IF im.signed THEN Pow2(im.bits - 1) - 1 ELSE Pow2(im.bits) - 1
    IN  {IF im.lsb0 THEN x - (x % 2) ELSE x : x \in {y \in {min, -1, 0, 5, max} : min <= y /\ y <= max}}

\* what randomize can assign to one operand
OperandValues(fmt, f, v) ==
    IF IsImmediate(f) THEN ImmRandom(ImmediateOf(fmt, f)) ELSE RandRange(v)

\* the instruction objects randomize can produce
Randomized(cls, v) ==
    LET fmt == Classes[cls].fmt
        all == UNION {OperandValues(fmt, f, v) : f \in OperandNames(fmt)}
    IN  {Obj(cls, ops) : ops \in {o \in [OperandNames(fmt) -> all] :
                                    \A f \in OperandNames(fmt) : o[f] \in OperandValues(fmt, f, v)}}

(***************************************************************************)
(* Where instructions come from: a pool of instruction classes with small  *)
(* operand sets (random.py draws instructions from a pool), or one of the  *)
(* test programs run by Model.execute on a fresh model.                    *)
(***************************************************************************)
RegIdx == 0..MaxReg

\* randrange(0, 1 << 32), reduced to representative words
FillValues == { <<\h1122, \h3344>>, <<\hFFFF, \hFFFF>> }

Imm12s == {1, -2}
LuiImms == {1, \hFFFFF}
CImms == {-2}
JumpImms == {8, -4}
Offsets == {0, 1}
Flags == {0, 1}

PoolAlu ==
    {Insn("lui", rd, 0, 0, imm, 0, 0) : rd \in RegIdx, imm \in LuiImms}
    \cup {Insn("addi", rd, rs1, 0, imm, 0, 0) : rd \in RegIdx, rs1 \in RegIdx, imm \in Imm12s}
    \cup {Insn("add", rd, rs1, rs2, 0, 0, 0) : rd \in RegIdx, rs1 \in RegIdx, rs2 \in RegIdx}
    \cup {Insn("c.addi", rd, 0, 0, imm, 0, 0) : rd \in RegIdx, imm \in CImms}
    \cup {Insn("c.li", rd, 0, 0, imm, 0, 0) : rd \in RegIdx, imm \in CImms}
    \cup {Insn("c.mv", rd, 0, rs, 0, 0, 0) : rd \in RegIdx, rs \in RegIdx}

PoolJump ==
    {Insn("jal", rd, 0, 0, imm, 0, 0) : rd \in RegIdx, imm \in JumpImms}
    \cup {Insn("jalr", rd, rs1, 0, imm, 0, 0) : rd \in RegIdx, rs1 \in RegIdx, imm \in Imm12s}
    \cup {Insn("auipc", rd, 0, 0, imm, 0, 0) : rd \in RegIdx, imm \in {1}}
    \cup {Insn(op, 0, rs1, rs2, imm, 0, 0) :
            op \in BranchOps, rs1 \in RegIdx, rs2 \in RegIdx, imm \in JumpImms}

PoolMem ==
    {Insn(op, rd, rs1, 0, imm, 0, 0) :
        op \in {"lb", "lh", "lw", "lbu", "lhu"}, rd \in RegIdx, rs1 \in RegIdx, imm \in Offsets}
    \cup {Insn(op, 0, rs1, rs2, imm, 0, 0) :
        op \in {"sb", "sh", "sw"}, rs1 \in RegIdx, rs2 \in RegIdx, imm \in Offsets}

PoolAtomic ==
    {Insn(op, rd, rs1, rs2, 0, aq, rl) :
        op \in {"lr", "sc", "amoadd", "amoswap"},
        rd \in RegIdx, rs1 \in RegIdx, rs2 \in RegIdx, aq \in Flags, rl \in Flags}

\* lr and sc on the addresses 0 and x1, writing x2
PoolLrSc ==
    {Insn(op, 2, rs1, 2, 0, aq, rl) :
        op \in {"lr", "sc"}, rs1 \in {0, 1}, aq \in Flags, rl \in Flags}

\* shifts with the amounts 0, 1, 12 and 31 and the comparisons with an immediate
PoolShift ==
    {Insn(op, rd, rs1, 0, sh, 0, 0) :
        op \in {"srli", "srai"}, rd \in {1}, rs1 \in RegIdx, sh \in {0, 1, 12, 31}}
    \cup {Insn(op, rd, rs1, rs2, 0, 0, 0) :
        op \in {"srl", "sra"}, rd \in {1}, rs1 \in RegIdx, rs2 \in RegIdx}
    \cup {Insn(op, rd, rs1, 0, imm, 0, 0) :
        op \in {"slti", "sltiu"}, rd \in {1}, rs1 \in RegIdx, imm \in {-1, 2, -2048}}

Pools == {"alu", "jump", "mem", "atomic", "lrsc", "shift"}

\* instructions issued in one run: one more for the small lr/sc pool
Steps(name) == IF name = "lrsc" THEN MaxSteps + 1 ELSE MaxSteps

Pool(name) ==
    CASE name = "alu"    -> PoolAlu
      [] name = "jump"   -> PoolJump
      [] name = "mem"    -> PoolMem
      [] name = "atomic" -> PoolAtomic
      [] name = "lrsc"   -> PoolLrSc
      [] name = "shift"  -> PoolShift

\* program/tests.py and program/tests_atomic.py
ADDITest == <<Insn("addi", 1, 0, 0, 0, 0, 0),
              Insn("addi", 1, 1, 0, 1, 0, 0),
              Insn("addi", 2, 1, 0, -2, 0, 0)>>

LUITest == <<Insn("lui", 1, 0, 0, 0, 0, 0),
             Insn("lui", 2, 0, 0, 1, 0, 0),
             Insn("lui", 3, 0, 0, \h80000, 0, 0),
             Insn("lui", 4, 0, 0, \hFFFFF, 0, 0),
             Insn("lui", 0, 0, 0, \hFFFFF, 0, 0)>>

LRSCTest == <<Insn("lr", 1, 0, 0, 0, 1, 0),
              Insn("sc", 2, 0, 0, 0, 0, 1),
              Insn("sc", 3, 0, 0, 0, 0, 1)>>

SRAITest == <<Insn("lui", 1, 0, 0, \hFEBED, 0, 0),
              Insn("srai", 2, 1, 0, 12, 0, 0),
              Insn("srai", 3, 1, 0, 2, 0, 0),
              Insn("srai", 4, 3, 0, 10, 0, 0)>>

Tests == {"ADDITest", "LUITest", "LRSCTest", "SRAITest"}

\* a program for Simulator.load_program: addi x1, x1, 1; lui x2, 1; ecall; addi x1, x1, 1
SimProgram == <<Insn("addi", 1, 1, 0, 1, 0, 0),
                Insn("lui", 2, 0, 0, 1, 0, 0),
                Insn("ecall", 0, 0, 0, 0, 0, 0),
                Insn("addi", 1, 1, 0, 1, 0, 0)>>

Program(name) ==
    CASE name = "ADDITest" -> ADDITest
      [] name = "LUITest"  -> LUITest
      [] name = "LRSCTest" -> LRSCTest
      [] name = "SRAITest" -> SRAITest
      [] name = "sim"      -> SimProgram

(***************************************************************************)
(* The initial states: State.__init__, then for a pool run optionally      *)
(* Model.randomize(), Model.reset(pc) and preloaded data.                  *)
(***************************************************************************)
\* Register.randomize, reduced to representative values
RegValues(name) ==
    CASE name = "alu"    -> {<<0, 1>>, <<\hFFFF, \hFFFF>>}
      [] name = "jump"   -> {<<0, 9>>, <<\h8000, 0>>}
      [] name = "mem"    -> {<<\hAABB, \hCC42>>}
      [] name = "atomic" -> {<<0, \h40>>}
      [] name = "lrsc"   -> {<<0, \h40>>}
      [] name = "shift"  -> {<<\hFEBE, \hD00C>>, <<\h7FFF, \h0021>>}

\* Model.reset(pc)
PcValues(name) ==
    CASE name = "alu"    -> {Zero, <<\hFFFF, \hFFFC>>}
      [] name = "jump"   -> {Zero, <<\hFFFF, \hFFFC>>}
      [] name = "mem"    -> {Zero}
      [] name = "atomic" -> {Zero}
      [] name = "lrsc"   -> {Zero}
      [] name = "shift"  -> {Zero}

\* the memory dictionary before the first instruction
MemValues(name) ==
    CASE name = "alu"    -> {<<>>}
      [] name = "jump"   -> {<<>>}
      [] name = "mem"    -> {<<>>, (0 :> <<\h1122, \h3344>>)}
      [] name = "atomic" -> {<<>>, (16 :> <<\h1122, \h3344>>)}
      [] name = "lrsc"   -> {<<>>}
      [] name = "shift"  -> {<<>>}

ZeroRegs == [r \in 0..(NumRegs - 1) |-> Zero]

RegFiles(name) ==
    {[r \in 0..(NumRegs - 1) |-> IF r \in 1..MaxReg THEN f[r] ELSE Zero] :
        f \in [1..MaxReg -> RegValues(name)]}

\* a call on the golden model, the simulator or State, and how it ended
Call(op, arg, out, r) == [op |-> op, arg |-> arg, out |-> out, ret |-> r]
NoCall == Call("none", <<>>, "none", <<>>)

\* no golden model, simulator or direct caller is at work
DriverIdle ==
    /\ gpc = 0
    /\ resetlog = <<>>
    /\ gissued = <<>>
    /\ fetchlog = <<>>
    /\ commitlog = <<>>
    /\ call = NoCall
    /\ cnt = 0
    /\ storelog = <<>>

Init ==
    /\ source \in Pools \cup Tests
    /\ intreg \in (IF source \in Pools THEN RegFiles(source) ELSE {ZeroRegs})
    /\ pc \in (IF source \in Pools THEN PcValues(source) ELSE {Zero})
    /\ memory \in (IF source \in Pools THEN MemValues(source) ELSE {<<>>})
    /\ intreg_updates = <<>>
    /\ pc_update = Zero
    /\ memory_update = <<>>
    /\ reserved = {}
    /\ phase = "idle"
    /\ insn = NoInsn
    /\ issued = 0
    /\ locklog = <<>>
    /\ rinsn = NoObj
    /\ variant = RV32I
    /\ word = Zero
    /\ decoded = NoObj
    /\ stage = "new"
    /\ DriverIdle

(***************************************************************************)
(* Model.issue, in two steps: "self.state.pc += 4; insn.execute(...)" and  *)
(* then "self.state.commit()".                                             *)
(***************************************************************************)
\* the State as Model.issue finds it
Current ==
    [regs |-> intreg, ru |-> intreg_updates, pc |-> pc, pcu |-> pc_update,
     mem |-> memory, mu |-> memory_update, res |-> reserved]

\* "self.state.pc += 4"
Advance(s) == SetPc(s, RegAdd(s.pc, Four))

IssueExecute(i, fill) ==
    /\ phase = "idle"
    /\ LET s1 == Execute(Advance(Current), i, fill)
       IN  /\ intreg' = s1.regs
           /\ intreg_updates' = s1.ru
           /\ pc' = s1.pc
           /\ pc_update' = s1.pcu
           /\ memory' = s1.mem
           /\ memory_update' = s1.mu
           /\ reserved' = s1.res
    /\ phase' = "executed"
    /\ insn' = i
    /\ issued' = issued + 1
    /\ locklog' = IF i.op \in {"lr", "sc"} \cup AmoOps
                  THEN Append(locklog, <<RegRead(Current, i.rs1), i.aq, i.rl>>)
                  ELSE locklog
    /\ UNCHANGED <<source, codecvars, drivervars>>

\* State.commit
Commit(fill) ==
    /\ phase = "executed"
    /\ intreg' = ApplyRegs(intreg, intreg_updates)
    /\ intreg_updates' = <<>>
    /\ pc' = pc_update
    /\ memory' = CommitMemory(memory, memory_update, fill)
    /\ memory_update' = <<>>
    /\ phase' = "idle"
    /\ insn' = NoInsn
    /\ UNCHANGED <<pc_update, reserved, source, issued, locklog, codecvars, drivervars>>

\* the word an instruction reads from memory, if any
ReadsWord(i) ==
    IF i.op \in {"lb", "lh", "lw", "lbu", "lhu"} THEN {WordIndex(EffAddr(Current, i))}
    ELSE IF i.op \in {"lr"} \cup AmoOps THEN {WordIndex(RegRead(Current, i.rs1))}
    ELSE {}

\* the outcomes of randrange where a word is materialised, one value where none is
Fills(words) == IF words \subseteq DOMAIN memory THEN {Zero} ELSE FillValues

\* Model.issue on an instruction drawn from the pool
IssuePool ==
    /\ source \in Pools
    /\ issued < Steps(source)
    /\ \E i \in Pool(source) : \E fill \in Fills(ReadsWord(i)) : IssueExecute(i, fill)

\* Model.execute(Program): the next instruction of the test program
IssueProgram ==
    /\ source \in Tests
    /\ issued < Len(Program(source))
    /\ \E fill \in Fills(ReadsWord(Program(source)[issued + 1])) :
            IssueExecute(Program(source)[issued + 1], fill)

CommitStep ==
    \E fill \in Fills(IF memory_update = <<>> THEN {} ELSE {WordIndex(memory_update[2])}) :
        Commit(fill)

Next == IssuePool \/ IssueProgram \/ CommitStep

Spec == Init /\ [][Next]_vars

(***************************************************************************)
(* The codec at work: an instruction of a class of the variant is          *)
(* randomized, encoded and the word decoded again (random.py), or a word   *)
(* read from a binary is decoded (code.py).                                *)
(***************************************************************************)
CodecVariants == {RV32I, RV32IM, RV32G}

\* words read from a binary: addi x0,x0,0; two compact words; ebreak; a word
\* of opcode 0x7f; mul; sub; an opcode 0x33 word of funct7 0x40, funct3 1;
\* amoadd with aq; csrrw
Words ==
    { <<\h0000, \h0013>>, <<\h0000, \h0000>>, <<\h0000, \h0001>>,
      <<\h0010, \h0073>>, <<\hFFFF, \hFFFF>>, <<\h0220, \h81B3>>,
      <<\h4020, \h81B3>>, <<\h8020, \h91B3>>, <<\h0420, \hA1AF>>,
      <<\h3000, \h10F3>> }

InitCodec ==
    /\ source = "none"
    /\ intreg = ZeroRegs
    /\ pc = Zero
    /\ memory = <<>>
    /\ intreg_updates = <<>>
    /\ pc_update = Zero
    /\ memory_update = <<>>
    /\ reserved = {}
    /\ phase = "idle"
    /\ insn = NoInsn
    /\ issued = 0
    /\ locklog = <<>>
    /\ rinsn = NoObj
    /\ variant = RV32I
    /\ word = Zero
    /\ decoded = NoObj
    /\ stage = "new"
    /\ DriverIdle

\* random_instruction: a class of the pool, instantiated and randomized
Randomize ==
    /\ stage = "new"
    /\ \E v \in CodecVariants :
        \E k \in {GetInsns(v)[j] : j \in 1..Len(GetInsns(v))} :
        \E o \in Randomized(k, v) :
            /\ rinsn' = o
            /\ variant' = v
    /\ stage' = "randomized"
    /\ UNCHANGED <<word, decoded, execvars, drivervars>>

\* i.encode()
EncodeStep ==
    /\ stage = "randomized"
    /\ word' = Encode(rinsn)
    /\ stage' = "encoded"
    /\ UNCHANGED <<rinsn, variant, decoded, execvars, drivervars>>

\* read_from_binary: the next word of the file
ReadWord ==
    /\ stage = "new"
    /\ \E v \in CodecVariants : \E w \in Words :
            /\ word' = w
            /\ variant' = v
    /\ stage' = "encoded"
    /\ UNCHANGED <<rinsn, decoded, execvars, drivervars>>

\* decode(word, variant)
DecodeStep ==
    /\ stage = "encoded"
    /\ decoded' = Decode(word, variant)
    /\ stage' = "decoded"
    /\ UNCHANGED <<rinsn, variant, word, execvars, drivervars>>

NextCodec == Randomize \/ EncodeStep \/ ReadWord \/ DecodeStep

SpecCodec == InitCodec /\ [][NextCodec]_vars

(***************************************************************************)
(* Properties.                                                             *)
(***************************************************************************)

\* C1: the committed value of x0 is 0 in every state, whatever was issued
\* (`lui x0, 0xfffff` included), and x0 is never among the changed registers
\* that State.changes reports.
C1_ZeroRegister ==
    /\ intreg[0] = Zero
    /\ \A k \in 1..Len(RegEntries) : RegEntries[k][2] # 0

\* LUITest has run to its end: its last instruction, lui x0, 0xfffff, is committed
C1_LuiZeroCommitted ==
    /\ source = "LUITest"
    /\ issued = Len(LUITest)
    /\ phase = "idle"
    /\ intreg[4] = <<\hFFFF, \hF000>>

\* C2 as stated: from the start of execute to commit the committed registers,
\* the committed pc, the memory and the reservations are unchanged; execute
\* writes only the pending register writes, memory_update and pc_update.
C2_ExecuteWritesOnlyPending ==
    [][(phase = "idle" /\ phase' = "executed") =>
        /\ intreg' = intreg
        /\ pc' = pc
        /\ memory' = memory
        /\ reserved' = reserved]_vars

\* C2, amended: execute leaves the committed registers, the committed pc and
\* every word already in memory unchanged; besides the pending buffers it
\* adds to memory only the word that a load, LR or AMO reads and that was not
\* there, and only LR, SC and the AMOs change the reservations.
C2_ExecuteFrame ==
    [][(phase = "idle" /\ phase' = "executed") =>
        /\ intreg' = intreg
        /\ pc' = pc
        /\ \A w \in DOMAIN memory : w \in DOMAIN memory' /\ memory'[w] = memory[w]
        /\ (DOMAIN memory' \ DOMAIN memory) \subseteq ReadsWord(insn')
        /\ (reserved' # reserved => insn'.op \in {"lr", "sc"} \cup AmoOps)]_vars

\* an amoadd on word 0, which no initial memory holds, has executed: the word
\* is in memory and a register write and a store are pending
C2_AmoExecuted ==
    /\ source = "atomic"
    /\ phase = "executed"
    /\ issued = 1
    /\ insn.op = "amoadd"
    /\ 0 \in DOMAIN memory
    /\ intreg_updates # <<>>
    /\ memory_update # <<>>

\* C3: what an instruction reads after it has written in the same execute is
\* the committed value from before the instruction.  At the commit of a jalr
\* the pc becomes (old rs1 + imm) and rd the old pc + 4, also when rd = rs1;
\* a jal links the old pc + 4 and jumps relative to the old pc; add writes
\* old rs1 + old rs2 (twice the old x1 for add x1, x1, x1); an AMO, which
\* reads rs1, rs2 and rd after writing rd, stores to the old rs1 a value
\* computed from the old rs2 and the old rd.
C3_ReadsSeeCommitted ==
    [][(phase = "executed" /\ phase' = "idle") =>
        /\ (insn.op = "jalr" =>
                /\ pc' = RegAddImm(intreg[insn.rs1], insn.imm)
                /\ (insn.rd # 0 => intreg'[insn.rd] = RegAdd(pc, Four)))
        /\ (insn.op = "jal" =>
                /\ pc' = RegAddImm(pc, insn.imm)
                /\ (insn.rd # 0 => intreg'[insn.rd] = RegAdd(pc, Four)))
        /\ (insn.op = "add" /\ insn.rd # 0 =>
                intreg'[insn.rd] = RegAdd(intreg[insn.rs1], intreg[insn.rs2]))
        /\ (insn.op = "amoadd" =>
                memory'[WordIndex(intreg[insn.rs1])]
                    = RegAdd(intreg[insn.rs2], intreg[insn.rd]))
        /\ (insn.op = "amoswap" =>
                memory'[WordIndex(intreg[insn.rs1])] = intreg[insn.rs2])]_vars

\* a jalr with rd = rs1 has executed, the old rs1 differing from the link
\* value pending for rd, and pc_update is the old rs1 + imm
C3_JalrSameRegister ==
    /\ phase = "executed"
    /\ insn.op = "jalr"
    /\ insn.rd = insn.rs1
    /\ insn.rd # 0
    /\ intreg_updates = << <<insn.rd, RegAdd(pc, Four)>> >>
    /\ intreg[insn.rs1] # RegAdd(pc, Four)
    /\ pc_update = RegAddImm(intreg[insn.rs1], insn.imm)

\* C4 as stated: the commit of an instruction that is neither a branch nor a
\* jump leaves pc at the previous pc plus 4 (mod 2^32), plus 2 for a compact
\* instruction.
C4_PcAdvance ==
    [][(phase = "executed" /\ phase' = "idle" /\ insn.op \notin BranchOps \cup JumpOps) =>
        pc' = RegAdd(pc, IF insn.op \in CompactOps THEN <<0, 2>> ELSE Four)]_vars

(***************************************************************************)
(* Replaying a trace: every entry applied to a committed state, a register *)
(* entry setting the register, a PC entry the pc, a memory entry the       *)
(* bytes of its width at its address; without a PC entry the pc advances   *)
(* by 4.                                                                   *)
(***************************************************************************)
\* the word old with the gran bytes at byte offset (addr mod 4) replaced by data
ReplayWord(old, addr, data, gran) ==
    LET offset == addr[2] % 4
        lanes == Mask32(ShlSmall(IF gran = 1 THEN 255 ELSE W16 - 1, offset * 8))
    IN  IF gran = 4 THEN data
        ELSE OrW(AndW(old, Not32(lanes)), Mask32(ShlSmall(data[2], offset * 8)))

ReplayEntry(st, e, fill) ==
    CASE e[1] = "x"   -> [st EXCEPT !.regs[e[2]] = e[3]]
      [] e[1] = "pc"  -> [st EXCEPT !.pc = e[2]]
      [] e[1] = "mem" ->
            LET w == WordIndex(e[2])
                old == IF w \in DOMAIN st.mem THEN st.mem[w] ELSE fill
            IN  [st EXCEPT !.mem = (w :> ReplayWord(old, e[2], e[3], e[4])) @@ @]

RECURSIVE Replay(_, _, _)
Replay(st, tr, fill) ==
    IF tr = <<>> THEN st ELSE Replay(ReplayEntry(st, Head(tr), fill), Tail(tr), fill)

\* C5 as stated: replaying the entries of State.changes on the state before
\* the commit gives exactly the state that State.commit produces (a word the
\* memory does not hold yet taking some random value in both).
C5_TraceReplaysToCommit ==
    [][(phase = "executed" /\ phase' = "idle") =>
        \E fill \in FillValues :
            LET r == Replay([regs |-> intreg, pc |-> RegAdd(pc, Four), mem |-> memory],
                            Changes, fill)
            IN  intreg' = r.regs /\ pc' = r.pc /\ memory' = r.mem]_vars

\* C6 as stated: the trace of an executed instruction is one register entry
\* for each pending write that differs from the committed register, then a
\* PC entry exactly when pc_update differs from pc + 4 modulo 2^32, then the
\* pending memory update.
C6_TraceShape ==
    phase = "executed" =>
        Changes =
            [k \in 1..Len(RegChanges) |-> <<"x", RegChanges[k][1], RegChanges[k][2]>>]
            \o (IF pc_update # RegAdd(pc, Four) THEN << <<"pc", pc_update>> >> ELSE <<>>)
            \o (IF memory_update # <<>>
                THEN << <<"mem", memory_update[2], memory_update[3], memory_update[1]>> >>
                ELSE <<>>)

\* C7 as stated: an instruction that randomize produced, encoded and decoded
\* again under the same variant, comes back as the same class with the same
\* operands (AMO aq/rl flags and register indices included).
C7_RoundTrip ==
    (stage = "decoded" /\ rinsn # NoObj) => decoded = rinsn

\* the static fields of class k have their declared values in the word w
C8_Fits(k, w) ==
    \A f \in StaticFields :
        (\E j \in 1..Len(FieldNames(Classes[k].fmt)) : FieldNames(Classes[k].fmt)[j] = f) =>
            /\ f \in DOMAIN Classes[k].value
            /\ ExtractField(Classes[k].fmt, f, w) = Classes[k].value[f]

C9_ReservedAfter(a, log) ==
    \E j \in 1..Len(log) :
        /\ log[j][1] = a /\ log[j][2] # 0
        /\ \A k \in j..Len(log) : ~(log[k][1] = a /\ log[k][3] # 0)

\* C9: the commit of an SC stores rs2 to the address in rs1 and sets rd to 0
\* exactly when an earlier LR, SC or AMO had aq set on that address and no
\* instruction with rl set on it followed (an instruction with both flags
\* releases); otherwise the memory is unchanged and rd becomes 1 (x0 stays
\* 0).  LRSCTest, lr (aq) ; sc (rl) ; sc (rl), ends with x2 = 0 and x3 = 1.
C9_StoreConditional ==
    /\ [][(phase = "executed" /\ phase' = "idle" /\ insn.op = "sc") =>
            LET a == intreg[insn.rs1]
            IN  IF C9_ReservedAfter(a, SubSeq(locklog, 1, Len(locklog) - 1))
                THEN /\ memory' = (WordIndex(a) :> intreg[insn.rs2]) @@ memory
                     /\ intreg' = IF insn.rd = 0 THEN intreg
                                  ELSE [intreg EXCEPT ![insn.rd] = Zero]
                ELSE /\ memory' = memory
                     /\ intreg' = IF insn.rd = 0 THEN intreg
                                  ELSE [intreg EXCEPT ![insn.rd] = <<0, 1>>]]_vars
    /\ []((source = "LRSCTest" /\ issued = Len(LRSCTest) /\ phase = "idle") =>
            (intreg[2] = Zero /\ intreg[3] = <<0, 1>>))

\* LRSCTest has run to its end: the first sc stored x0 to word 0, the second
\* found the reservation released and set x3 to 1
C9_LrScScDone ==
    /\ source = "LRSCTest"
    /\ issued = Len(LRSCTest)
    /\ phase = "idle"
    /\ locklog = << <<Zero, 1, 0>>, <<Zero, 0, 1>>, <<Zero, 0, 1>> >>
    /\ memory = (0 :> Zero)
    /\ intreg[3] = <<0, 1>>
    /\ reserved = {}

\* (a + k) mod 2^32 for a register value a and a signed 12-bit k
C10_Sum(a, k) ==
    LET lo == a[2] + k
    IN  <<(a[1] + (lo \div W16)) % W16, lo % W16>>

\* C10: the commit of addi rd, rs1, imm leaves rd = (rs1 + sign-extended imm)
\* mod 2^32; the instructions of a program run by Model.execute see the
\* committed results of the earlier ones: after the first two instructions of
\* ADDITest x1 is 1, and at its end x1 = 1 and x2 = 0xFFFFFFFF.
C10_AddImmediate ==
    /\ [][(phase = "executed" /\ phase' = "idle" /\ insn.op = "addi" /\ insn.rd # 0) =>
            intreg' = [intreg EXCEPT ![insn.rd] = C10_Sum(intreg[insn.rs1], insn.imm)]]_vars
    /\ []((source = "ADDITest" /\ phase = "idle" /\ issued = 2) => intreg[1] = <<0, 1>>)
    /\ []((source = "ADDITest" /\ phase = "idle" /\ issued = Len(ADDITest)) =>
            (intreg[1] = <<0, 1>> /\ intreg[2] = <<\hFFFF, \hFFFF>>))

\* ADDITest has run to its end: addi x2, x1, -2 on the committed x1 = 1 has
\* wrapped to 0xFFFFFFFF
C10_AddiChainDone ==
    /\ source = "ADDITest"
    /\ issued = Len(ADDITest)
    /\ phase = "idle"
    /\ intreg[1] = <<0, 1>>
    /\ intreg[2] = <<\hFFFF, \hFFFF>>



(***************************************************************************)
(* A caller that uses State directly: sb / sh / sw, lw and commit in any   *)
(* order (model.py:40-89).                                                 *)
(***************************************************************************)
InitState ==
    /\ source = "state"
    /\ intreg = ZeroRegs
    /\ pc = Zero
    /\ memory \in MemValues("mem")
    /\ intreg_updates = <<>>
    /\ pc_update = Zero
    /\ memory_update = <<>>
    /\ reserved = {}
    /\ phase = "idle"
    /\ insn = NoInsn
    /\ issued = 0
    /\ locklog = <<>>
    /\ rinsn = NoObj
    /\ variant = RV32I
    /\ word = Zero
    /\ decoded = NoObj
    /\ stage = "new"
    /\ DriverIdle

\* State.sb / State.sh / State.sw called by the caller
StateStore ==
    /\ issued < MaxCalls
    /\ \E gran \in {1, 4}, a \in {<<0, 1>>, <<0, 4>>}, data \in {<<0, \hAA>>, <<\hAABB, \hCC42>>} :
          LET s1 == IF gran = 1 THEN Sb(Current, a, data) ELSE Sw(Current, a, data)
          IN  /\ memory_update' = s1.mu
              /\ storelog' = Append(storelog, s1.mu)
              /\ call' = Call("store", <<gran, a, data>>, "return", <<>>)
    /\ issued' = issued + 1
    /\ phase' = "executed"
    /\ UNCHANGED <<intreg, intreg_updates, pc, pc_update, memory, reserved, insn,
                   source, locklog, codecvars, gpc, resetlog, gissued, fetchlog, commitlog, cnt>>

\* State.lw called by the caller
StateLoad ==
    /\ issued < MaxCalls
    /\ \E a \in {<<0, 1>>, <<0, 4>>} : \E fill \in Fills({WordIndex(a)}) :
          /\ memory' = Touch(Current, a, fill).mem
          /\ call' = Call("lw", a, "return", Lw(memory', a))
    /\ issued' = issued + 1
    /\ UNCHANGED <<intreg, intreg_updates, pc, pc_update, memory_update, reserved,
                   phase, insn, source, locklog, codecvars, gpc, resetlog, gissued, fetchlog,
                   commitlog, cnt, storelog>>

\* State.commit called by the caller
StateCommit ==
    /\ phase = "executed"
    /\ issued < MaxCalls
    /\ \E fill \in Fills(IF memory_update = <<>> THEN {}
                         ELSE {WordIndex(memory_update[2])}) :
          LET s1 == CommitState(Current, fill)
          IN  /\ intreg' = s1.regs
              /\ intreg_updates' = s1.ru
              /\ pc' = s1.pc
              /\ memory' = s1.mem
              /\ memory_update' = s1.mu
    /\ storelog' = <<>>
    /\ call' = Call("commit", <<>>, "return", <<>>)
    /\ issued' = issued + 1
    /\ phase' = "idle"
    /\ UNCHANGED <<pc_update, reserved, insn, source, locklog, codecvars, gpc, resetlog,
                   gissued, fetchlog, commitlog, cnt>>

NextState == StateStore \/ StateLoad \/ StateCommit

SpecState == InitState /\ [][NextState]_vars


(***************************************************************************)
(* GoldenUnbuffered (golden.py): a Model, a loaded program, the pc of the  *)
(* next fetch and the deque of fetched instructions not yet committed.     *)
(***************************************************************************)
\* Model.issue as a function of the State record
ModelIssue(s, i, fill) == CommitState(Execute(Advance(s), i, fill), fill)

\* InstructionNOP(): InstructionADDI(0, 0, 0)
InstructionNOP == Insn("addi", 0, 0, 0, 0, 0, 0)

\* Instruction.__eq__: get_fields() yields Field tuples, every class has
\* field_opcode, and the first pass of the loop calls getattr(self, <Field>)
\* (or getattr(self, <tuple slice>) for an operand field), which raises
\* TypeError before any comparison is made
InstructionEq(a, b) == "TypeError"

\* "a != b": the default __ne__ inverts __eq__ and passes its exception on
InstructionNe(a, b) ==
    CASE InstructionEq(a, b) = "True"  -> "False"
      [] InstructionEq(a, b) = "False" -> "True"
      [] OTHER                          -> InstructionEq(a, b)

\* Model.check(trace): every integer-register entry holds in the committed file
ModelCheck(s, trace) ==
    \A k \in 1..Len(trace) : trace[k][1] = "x" => s.regs[trace[k][2]] = trace[k][3]

\* the traces an observed core reports: register, pc and memory entries
GoldenTraces ==
    { <<>>,
      << <<"x", 1, <<0, 0>> >> >>,
      << <<"x", 1, <<0, 1>> >> >>,
      << <<"x", 2, <<0, \h1000>> >>, <<"pc", <<0, \h63>> >> >>,
      << <<"pc", <<0, \h63>> >>, <<"mem", <<0, 4>>, <<0, 1>>, 4>> >>,
      << <<"x", 1, <<0, 1>> >>, <<"x", 2, <<0, 7>> >> >> }

\* the insn argument of commit: None (NoInsn), a NOP or an instruction
CommitInsns == {NoInsn, InstructionNOP, ADDITest[1], LUITest[2]}

GoldenPrograms == {"ADDITest", "LUITest"}

\* GoldenUnbuffered(variant, pc = p) and load_program
InitGolden ==
    /\ source \in GoldenPrograms
    /\ gpc \in {0, 4}
    /\ resetlog = <<gpc>>
    /\ pc = <<0, gpc>>
    /\ intreg = ZeroRegs
    /\ memory = <<>>
    /\ intreg_updates = <<>>
    /\ pc_update = Zero
    /\ memory_update = <<>>
    /\ reserved = {}
    /\ phase = "idle"
    /\ insn = NoInsn
    /\ issued = 0
    /\ locklog = <<>>
    /\ rinsn = NoObj
    /\ variant = RV32I
    /\ word = Zero
    /\ decoded = NoObj
    /\ stage = "new"
    /\ gissued = <<>>
    /\ fetchlog = <<>>
    /\ commitlog = <<>>
    /\ call = NoCall
    /\ cnt = 0
    /\ storelog = <<>>

\* "self.pc += 4"
NextFetchPc_Stuck(p) == p

NextFetchPc(p) == p + 4

\* GoldenUnbuffered.fetch(p)
GoldenFetch ==
    \E p \in {gpc, gpc + 4, 0} :
        IF gpc # p
        THEN /\ call' = Call("fetch", p, "GoldenException", <<>>)
             /\ UNCHANGED <<execvars, codecvars, gpc, resetlog, gissued, fetchlog, commitlog,
                            cnt, storelog>>
        ELSE IF (p \div 4) + 1 > Len(Program(source))
        THEN /\ call' = Call("fetch", p, "GoldenProgramEndException", <<>>)
             /\ UNCHANGED <<execvars, codecvars, gpc, resetlog, gissued, fetchlog, commitlog,
                            cnt, storelog>>
        ELSE /\ gissued' = Append(gissued, Program(source)[(p \div 4) + 1])
             /\ fetchlog' = Append(fetchlog, Program(source)[(p \div 4) + 1])
             /\ gpc' = NextFetchPc(gpc)
             /\ call' = Call("fetch", p, "return", Program(source)[(p \div 4) + 1])
             /\ UNCHANGED <<execvars, codecvars, resetlog, commitlog, cnt, storelog>>

\* "if not self.model.check(trace): raise GoldenException(...)"
CommitVerdict_AcceptAll(ok) == "return"

CommitVerdict(ok) == IF ok THEN "return" ELSE "GoldenException"

\* GoldenUnbuffered.commit(trace, insn = i)
GoldenCommit ==
    \E trace \in GoldenTraces, i \in CommitInsns :
        IF gissued = <<>>
        THEN /\ call' = Call("commit", <<trace, i>>,
                             IF i # NoInsn /\ InstructionNe(i, InstructionNOP) \notin {"True", "False"}
                             THEN InstructionNe(i, InstructionNOP)
                             ELSE "GoldenProgramEndException", <<>>)
             /\ UNCHANGED <<execvars, codecvars, gpc, resetlog, gissued, fetchlog, commitlog,
                            cnt, storelog>>
        ELSE LET exp == Head(gissued)
                 ne  == IF i = NoInsn THEN "False" ELSE InstructionNe(exp, i)
                 s1  == ModelIssue(Current, exp, Zero)
             IN  /\ gissued' = Tail(gissued)
                 /\ IF ne # "False"
                    THEN /\ call' = Call("commit", <<trace, i>>,
                                         IF ne = "True" THEN "GoldenException" ELSE ne,
                                         <<>>)
                         /\ commitlog' = Append(commitlog, <<exp, call'.out>>)
                         /\ UNCHANGED <<execvars, codecvars, gpc, resetlog, fetchlog, cnt, storelog>>
                    ELSE /\ intreg' = s1.regs
                         /\ intreg_updates' = s1.ru
                         /\ pc' = s1.pc
                         /\ pc_update' = s1.pcu
                         /\ memory' = s1.mem
                         /\ memory_update' = s1.mu
                         /\ reserved' = s1.res
                         /\ call' = Call("commit", <<trace, i>>,
                                         CommitVerdict(ModelCheck(s1, trace)), <<>>)
                         /\ commitlog' = Append(commitlog, <<exp, call'.out>>)
                         /\ UNCHANGED <<phase, insn, source, issued, locklog, codecvars,
                                        gpc, resetlog, fetchlog, cnt, storelog>>

\* GoldenUnbuffered.reset(pc = p): "self.model.reset(pc=pc); self.pc = pc;
\* self.issued = deque()"; State.reset sets the pc register itself
GoldenReset_KeepsQueue ==
    \E p \in {0, 4} :
        /\ Len(resetlog) < MaxResets
        /\ pc' = <<0, p>>
        /\ gpc' = p
        /\ resetlog' = Append(resetlog, p)
        /\ fetchlog' = <<>>
        /\ commitlog' = <<>>
        /\ call' = Call("reset", p, "return", <<>>)
        /\ UNCHANGED <<intreg, intreg_updates, pc_update, memory, memory_update,
                       reserved, phase, insn, source, issued, locklog, codecvars,
                       gissued, cnt, storelog>>

GoldenReset ==
    \E p \in {0, 4} :
        /\ Len(resetlog) < MaxResets
        /\ pc' = <<0, p>>
        /\ gpc' = p
        /\ gissued' = <<>>
        /\ resetlog' = Append(resetlog, p)
        /\ fetchlog' = <<>>
        /\ commitlog' = <<>>
        /\ call' = Call("reset", p, "return", <<>>)
        /\ UNCHANGED <<intreg, intreg_updates, pc_update, memory, memory_update,
                       reserved, phase, insn, source, issued, locklog, codecvars,
                       cnt, storelog>>

NextGolden == GoldenFetch \/ GoldenCommit

SpecGolden == InitGolden /\ [][NextGolden]_vars

\* the golden model with resets between the fetches and commits
NextGoldenReset == GoldenFetch \/ GoldenCommit \/ GoldenReset

SpecGoldenReset == InitGolden /\ [][NextGoldenReset]_vars


(***************************************************************************)
(* traces_from_rvfi (golden.py:81-94) applied to one RVFI record.          *)
(***************************************************************************)
\* RVFISignals records: valid, insn, rd_addr, rd_wdata.  The words: nop,
\* sw x1, 0(x0), lui x1, 1, a compact word and a word of opcode 0x7f
RVFISignals ==
    [valid : {0, 1},
     insn : { <<\h0000, \h0013>>, <<\h0010, \h2023>>, <<\h0000, \h10B7>>,
              <<\h0000, \h0000>>, <<\hFFFF, \hFFFF>> },
     rd_addr : {0, 1, 2},
     rd_wdata : {Zero, <<0, \h1000>>, <<\hFFFF, \hFFFF>>}]

\* traces_from_rvfi: how the call ends and what it returns, given decode's result
TracesFromRvfi(rvfi, i) ==
    IF i \in {MachineDecodeError, AttributeError}
    THEN Call("traces_from_rvfi", rvfi,
              IF i = MachineDecodeError THEN "MachineDecodeError" ELSE "AttributeError",
              <<>>)
    ELSE IF rvfi.valid # 1 THEN Call("traces_from_rvfi", rvfi, "return", <<>>)
    ELSE IF rvfi.rd_addr = 0 /\ rvfi.rd_wdata # Zero
    THEN Call("traces_from_rvfi", rvfi, "ValueError", <<>>)
    ELSE IF rvfi.rd_addr # 0 /\ "rd" \in DOMAIN i.ops
    THEN Call("traces_from_rvfi", rvfi, "return",
              << <<"x", rvfi.rd_addr, Mask32(rvfi.rd_wdata)>> >>)
    ELSE Call("traces_from_rvfi", rvfi, "return", <<>>)

InitRvfi ==
    /\ source = "rvfi"
    /\ call \in {Call("traces_from_rvfi", r, "pending", <<>>) : r \in RVFISignals}
    /\ word = call.arg.insn
    /\ intreg = ZeroRegs
    /\ pc = Zero
    /\ memory = <<>>
    /\ intreg_updates = <<>>
    /\ pc_update = Zero
    /\ memory_update = <<>>
    /\ reserved = {}
    /\ phase = "idle"
    /\ insn = NoInsn
    /\ issued = 0
    /\ locklog = <<>>
    /\ rinsn = NoObj
    /\ variant = RV32I
    /\ decoded = NoObj
    /\ stage = "new"
    /\ gpc = 0
    /\ resetlog = <<>>
    /\ gissued = <<>>
    /\ fetchlog = <<>>
    /\ commitlog = <<>>
    /\ cnt = 0
    /\ storelog = <<>>

\* the call: "insn = decode(rvfi.insn)" and the rest of the function
TracesStep ==
    /\ call.op = "traces_from_rvfi"
    /\ call.out = "pending"
    /\ decoded' = Decode(word, variant)
    /\ stage' = "decoded"
    /\ call' = TracesFromRvfi(call.arg, decoded')
    /\ UNCHANGED <<execvars, rinsn, variant, word, gpc, resetlog, gissued, fetchlog,
                   commitlog, cnt, storelog>>

SpecRvfi == InitRvfi /\ [][TracesStep]_vars


(***************************************************************************)
(* Simulator.run (sim.py:19-31): reset, then one Model.issue per pass of   *)
(* the loop until the program is left or an ecall terminates the run.      *)
(***************************************************************************)
InitSim ==
    /\ source \in {"ADDITest", "LUITest", "sim"}
    /\ intreg \in RegFiles("alu")
    /\ pc = Zero
    /\ memory = <<>>
    /\ intreg_updates = <<>>
    /\ pc_update = Zero
    /\ memory_update = <<>>
    /\ reserved = {}
    /\ phase = "idle"
    /\ insn = NoInsn
    /\ issued = 0
    /\ locklog = <<>>
    /\ rinsn = NoObj
    /\ variant = RV32I
    /\ word = Zero
    /\ decoded = NoObj
    /\ stage = "new"
    /\ DriverIdle

\* "self.model.reset(pc=pc); cnt = 0"
SimReset ==
    /\ call.op = "none"
    /\ \E p \in {0, 4, 8} :
          /\ pc' = <<0, p>>
          /\ call' = Call("run", p, "running", <<>>)
    /\ cnt' = 0
    /\ UNCHANGED <<intreg, intreg_updates, pc_update, memory, memory_update, reserved,
                   phase, insn, source, issued, locklog, codecvars, gpc, resetlog, gissued,
                   fetchlog, commitlog, storelog>>

\* "cnt += 1"
SimCount_Twice(c) == c + 2

SimCount(c) == c + 1

\* one pass of the loop.  For an ecall the environment hook returns or raises
\* TerminateException with return code 0 or 1
SimIterate ==
    /\ call.op = "run"
    /\ call.out = "running"
    /\ IF WordIndex(pc) + 1 > Len(Program(source))
       THEN \* IndexError: return cnt
            /\ call' = [call EXCEPT !.out = "return", !.ret = cnt]
            /\ UNCHANGED <<execvars, codecvars, gpc, resetlog, gissued, fetchlog, commitlog,
                           cnt, storelog>>
       ELSE LET i == Program(source)[WordIndex(pc) + 1]
            IN  \E env \in (IF i.op = "ecall" THEN {"return", "terminate 0", "terminate 1"}
                            ELSE {"return"}) :
                  IF env = "return"
                  THEN LET s1 == IF i.op = "ecall" THEN CommitState(Advance(Current), Zero)
                                 ELSE ModelIssue(Current, i, Zero)
                       IN  /\ intreg' = s1.regs
                           /\ intreg_updates' = s1.ru
                           /\ pc' = s1.pc
                           /\ pc_update' = s1.pcu
                           /\ memory' = s1.mem
                           /\ memory_update' = s1.mu
                           /\ reserved' = s1.res
                           /\ cnt' = SimCount(cnt)
                           /\ commitlog' = Append(commitlog, <<i, "return">>)
                           /\ UNCHANGED <<phase, insn, source, issued, locklog, codecvars,
                                          gpc, resetlog, gissued, fetchlog, call, storelog>>
                  ELSE \* TerminateException leaves Model.issue before the commit
                       /\ pc_update' = Advance(Current).pcu
                       /\ call' = IF env = "terminate 0"
                                  THEN [call EXCEPT !.out = "return", !.ret = cnt]
                                  ELSE [call EXCEPT !.out = "AssertionError"]
                       /\ UNCHANGED <<intreg, intreg_updates, pc, memory, memory_update,
                                      reserved, phase, insn, source, issued, locklog,
                                      codecvars, gpc, resetlog, gissued, fetchlog, commitlog, cnt,
                                      storelog>>

NextSim == SimReset \/ SimIterate

SpecSim == InitSim /\ [][NextSim]_vars


(***************************************************************************)
(* Variant.__init__ (variant.py:35-64) on a name that the regex has split  *)
(* into xlen, base, the run of extension letters and the Z names.          *)
(***************************************************************************)
\* the implies lists of Variant.stdext and Variant.stdextZ
Implies(e) ==
    CASE e = "F" -> {"Zicsr"}
      [] e = "D" -> {"F"}
      [] OTHER   -> {}

G_expand == {"I", "M", "A", "F", "D", "Zicsr", "Zifencei"}

\* Variant(name): match.group(3) of the repeated group "(M|A|F|D|C|G)*" is its
\* last repetition only; the Z names are those of name.upper()
VariantInit(n) ==
    LET baseint == IF n.base = "G" THEN "I" ELSE n.base
        group3  == IF n.letters = <<>> THEN {} ELSE {n.letters[Len(n.letters)]}
        letters == UNION {IF e = "G" THEN G_expand ELSE {e} \cup Implies(e) : e \in group3}
        znames  == UNION {{n.tail[k]} \cup Implies(n.tail[k]) : k \in 1..Len(n.tail)}
    IN  IF baseint # "I" /\ n.xlen # 32 THEN Call("Variant", n, "AssertionError", <<>>)
        ELSE IF "G" \in group3 /\ baseint # "I"
        THEN Call("Variant", n, "AssertionError", <<>>)
        ELSE Call("Variant", n, "return",
                  Variant(n.xlen, baseint,
                          (IF n.base = "G" THEN G_expand ELSE {}) \cup letters \cup znames))

InitVariant ==
    /\ source = "variant"
    /\ call \in {Call("Variant", n, "pending", <<>>) :
                    n \in [xlen : {32, 64},
                           base : {"I", "E", "G"},
                           letters : {<<>>} \cup {<<a>> : a \in {"M", "F", "D", "G"}}
                                       \cup {<<a, b>> : a, b \in {"M", "F", "D"}},
                           tail : {<<>>, <<"ZICSR">>, <<"ZICSR", "ZIFENCEI">>}]}
    /\ intreg = ZeroRegs
    /\ pc = Zero
    /\ memory = <<>>
    /\ intreg_updates = <<>>
    /\ pc_update = Zero
    /\ memory_update = <<>>
    /\ reserved = {}
    /\ phase = "idle"
    /\ insn = NoInsn
    /\ issued = 0
    /\ locklog = <<>>
    /\ rinsn = NoObj
    /\ variant = RV32I
    /\ word = Zero
    /\ decoded = NoObj
    /\ stage = "new"
    /\ gpc = 0
    /\ resetlog = <<>>
    /\ gissued = <<>>
    /\ fetchlog = <<>>
    /\ commitlog = <<>>
    /\ cnt = 0
    /\ storelog = <<>>

\* the constructor runs
VariantStep ==
    /\ call.op = "Variant"
    /\ call.out = "pending"
    /\ call' = VariantInit(call.arg)
    /\ variant' = IF call'.out = "return" THEN call'.ret ELSE variant
    /\ UNCHANGED <<execvars, rinsn, word, decoded, stage, gpc, resetlog, gissued, fetchlog,
                   commitlog, cnt, storelog>>

SpecVariant == InitVariant /\ [][VariantStep]_vars

C12_Bit(w, k) ==
    IF k < 16 THEN (w[2] \div Pow2(k)) % 2 ELSE (w[1] \div Pow2(k - 16)) % 2

C12_StoreLaneMerge ==
    [][(phase = "executed" /\ phase' = "idle" /\ memory_update # <<>>) =>
        LET gran == memory_update[1]
            base == WordIndex(memory_update[2])
            lo   == 8 * (memory_update[2][2] % 4)
            data == memory_update[3]
        IN  /\ DOMAIN memory' = DOMAIN memory \cup {base}
            /\ \A w \in DOMAIN memory \ {base} : memory'[w] = memory[w]
            /\ gran = 4 => memory'[base] = data
            /\ gran # 4 =>
                 \A k \in 0..31 :
                    IF k >= lo /\ k < lo + 8 * gran
                    THEN C12_Bit(memory'[base], k) = C12_Bit(data, k - lo)
                    ELSE base \in DOMAIN memory =>
                            C12_Bit(memory'[base], k) = C12_Bit(memory[base], k)
      ]_vars


(***************************************************************************)
(* C13: every store issued before a commit is kept as a pending entry in   *)
(* issue order: changes() lists all the pend called since the last       *)
(* commit, in call order, and commit applies all of them in that order.    *)
(***************************************************************************)
RECURSIVE C13_ApplyAll(_, _, _)
C13_ApplyAll(mem, pend, fill) ==
    IF pend = <<>> THEN mem
    ELSE C13_ApplyAll(CommitMemory(mem, Head(pend), fill), Tail(pend), fill)

C13_PendingStoresFifo ==
    /\ [](source = "state" =>
            MemEntries = [k \in 1..Len(storelog) |->
                            <<"mem", storelog[k][2], storelog[k][3], storelog[k][1]>>])
    /\ [][(source = "state" /\ phase = "executed" /\ phase' = "idle") =>
            \E fill \in FillValues : memory' = C13_ApplyAll(memory, storelog, fill)
         ]_vars


(***************************************************************************)
(* C14: fetch(p) with p different from the golden's pc fails with          *)
(* GoldenException and leaves the pc and the in-flight queue unchanged;    *)
(* with p equal and p >> 2 inside the program it returns program[p >> 2],  *)
(* appends it to the queue and advances the pc by 4; with p >> 2 outside   *)
(* the program it signals GoldenProgramEndException and appends nothing.   *)
(***************************************************************************)
C14_Fetch ==
    [][call'.op = "fetch" =>
        LET p == call'.arg
        IN  IF p # gpc
            THEN /\ call'.out = "GoldenException"
                 /\ gpc' = gpc
                 /\ gissued' = gissued
            ELSE IF p \div 4 < Len(Program(source))
            THEN /\ call'.out = "return"
                 /\ call'.ret = Program(source)[(p \div 4) + 1]
                 /\ gissued' = Append(gissued, Program(source)[(p \div 4) + 1])
                 /\ gpc' = gpc + 4
            ELSE /\ call'.out = "GoldenProgramEndException"
                 /\ gissued' = gissued
      ]_vars

\* the third instruction of ADDITest has just been fetched at pc 8
C14_ThirdFetched ==
    /\ source = "ADDITest"
    /\ call.op = "fetch"
    /\ call.arg = 8
    /\ call.out = "return"
    /\ call.ret = ADDITest[3]
    /\ gpc = 12


(***************************************************************************)
(* C15: commits are matched to fetches in FIFO order: while every commit   *)
(* has succeeded, the k-th commit executes the k-th fetched instruction;   *)
(* a commit given an insn that differs from the expected instruction fails *)
(* with GoldenException and leaves the model's state as it was.            *)
(***************************************************************************)
C15_CommitFifo ==
    /\ []((source \in GoldenPrograms
            /\ \A k \in 1..Len(commitlog) : commitlog[k][2] = "return") =>
          \A k \in 1..Len(commitlog) : commitlog[k][1] = fetchlog[k])
    /\ [][(call'.op = "commit" /\ gissued # <<>> /\ call'.arg[2] # NoInsn
            /\ call'.arg[2] # Head(gissued)) =>
            /\ call'.out = "GoldenException"
            /\ UNCHANGED <<intreg, intreg_updates, pc, pc_update, memory,
                           memory_update, reserved>>
         ]_vars

(***************************************************************************)
(* C16: commit called while the in-flight queue is empty with insn equal   *)
(* to NOP (addi x0, x0, 0) is a graceful end of program: no exception      *)
(* other than the end-of-program signal leaves the call, nothing is        *)
(* executed on the model, and the model state and the queue are unchanged. *)
(***************************************************************************)
C16_NopAtEnd ==
    [][(call'.op = "commit" /\ gissued = <<>> /\ call'.arg[2] = InstructionNOP) =>
         /\ call'.out \in {"return", "GoldenProgramEndException"}
         /\ gissued' = gissued
         /\ commitlog' = commitlog
         /\ UNCHANGED <<intreg, intreg_updates, pc, pc_update, memory,
                        memory_update, reserved>>
      ]_vars

C17_RejectedRegister ==
    /\ call.op = "commit"
    /\ call.out = "GoldenException"
    /\ call.arg = << << <<"x", 1, <<0, 0>> >> >>, NoInsn>>
    /\ intreg[1] = <<0, 1>>


(***************************************************************************)
(* C18: traces_from_rvfi returns the empty list for every record with      *)
(* valid # 1 whatever its insn field holds, raises when valid = 1 with     *)
(* rd_addr = 0 and rd_wdata # 0, and for valid = 1 with rd_addr # 0 on an  *)
(* instruction with a destination register returns exactly the one         *)
(* register entry (rd_addr, rd_wdata).                                     *)
(***************************************************************************)
C18_TracesFromRvfi ==
    (call.op = "traces_from_rvfi" /\ call.out # "pending") =>
        /\ call.arg.valid # 1 => (call.out = "return" /\ call.ret = <<>>)
        /\ (call.arg.valid = 1 /\ call.arg.rd_addr = 0 /\ call.arg.rd_wdata # Zero) =>
               call.out # "return"
        /\ (call.arg.valid = 1 /\ call.arg.rd_addr # 0
              /\ decoded \notin {MachineDecodeError, AttributeError}
              /\ "rd" \in DOMAIN decoded.ops) =>
               /\ call.out = "return"
               /\ call.ret = << <<"x", call.arg.rd_addr, call.arg.rd_wdata>> >>


(***************************************************************************)
(* C19: Simulator.run returns exactly the number of instructions that were *)
(* committed; when an ecall terminates the run with return code 0, that    *)
(* ecall is neither counted nor committed: the committed pc, registers and *)
(* memory are those left by the instruction before it.                     *)
(***************************************************************************)
C19_RunCount ==
    /\ []((call.op = "run" /\ call.out = "return") => call.ret = Len(commitlog))
    /\ [][(call.op = "run" /\ call.out = "running" /\ call'.out = "return"
            /\ WordIndex(pc) < Len(Program(source))
            /\ Program(source)[WordIndex(pc) + 1].op = "ecall") =>
            /\ UNCHANGED <<intreg, pc, memory, commitlog>>
            /\ call'.ret = cnt
            /\ \A k \in 1..Len(commitlog) : commitlog[k][1].op # "ecall"
         ]_vars

\* run(pc = 0) on the program with the ecall returned 2: the ecall ended it
C19_EcallEndedRun ==
    /\ source = "sim"
    /\ call = Call("run", 0, "return", 2)
    /\ pc = <<0, 8>>
    /\ intreg[2] = <<0, \h1000>>


(***************************************************************************)
(* C20: the extension set of every parsed Variant is closed under          *)
(* implication: whenever e is in the set and e implies f, f is in the set  *)
(* too (a variant naming D contains D, F and Zicsr).                       *)
(***************************************************************************)
C20_ImplicationClosed ==
    (call.op = "Variant" /\ call.out = "return") =>
        \A e \in variant.extensions : Implies(e) \subseteq variant.extensions


(***************************************************************************)
(* C21: a <= b on Variants is reflexive, antisymmetric with respect to     *)
(* Variant equality and transitive, and whenever a <= b every instruction  *)
(* class of get_insns(variant = a) is also in get_insns(variant = b).      *)
(* Checked for the parsed variant against the variants of variant.py and   *)
(* further ones of other xlen, base and extensions.                        *)
(***************************************************************************)
C21_Others ==
    {RV32I, RV32IZicsr, RV32IM, RV64I, RV32G, RV32A, RV32IZifencei,
     Variant(32, "E", {}), Variant(64, "I", {"M"}), Variant(32, "I", {"M", "A"}),
     Variant(32, "I", {"F", "Zicsr"}), Variant(32, "I", {"M", "ZICSR"})}

C21_InsnSet(v) == {GetInsns(v)[k] : k \in 1..Len(GetInsns(v))}

C21_PartialOrder ==
    (call.op = "Variant" /\ call.out = "return") =>
        /\ VariantLe(variant, variant)
        /\ \A b \in C21_Others :
              /\ (VariantLe(variant, b) /\ VariantLe(b, variant)) => VariantEq(variant, b)
              /\ VariantLe(variant, b) => C21_InsnSet(variant) \subseteq C21_InsnSet(b)
              /\ VariantLe(b, variant) => C21_InsnSet(b) \subseteq C21_InsnSet(variant)
              /\ \A c \in C21_Others :
                    /\ (VariantLe(variant, b) /\ VariantLe(b, c)) => VariantLe(variant, c)
                    /\ (VariantLe(b, variant) /\ VariantLe(variant, c)) => VariantLe(b, c)

\* Variant("RV32IM") was built: strictly below RV32G, with more classes than RV32I
C21_BetweenTwo ==
    /\ call.op = "Variant"
    /\ call.out = "return"
    /\ variant = Variant(32, "I", {"M"})
    /\ VariantLe(RV32I, variant) /\ ~VariantLe(variant, RV32I)
    /\ VariantLe(variant, RV32G) /\ ~VariantLe(RV32G, variant)
    /\ C21_InsnSet(variant) # C21_InsnSet(RV32I)
    /\ C21_InsnSet(RV32I) \subseteq C21_InsnSet(variant)


(***************************************************************************)
(* C22: for a signed Immediate of b bits and every value x it can hold     *)
(* (even x only when lsb0), set_from_bits of the b-bit two's-complement    *)
(* pattern of x gives x, so an immediate that encode wrote with            *)
(* imm.unsigned() is read back unchanged by decode.                        *)
(***************************************************************************)
C22_ImmediateLaw ==
    (stage = "decoded" /\ rinsn # NoObj /\ decoded \notin {MachineDecodeError, AttributeError}) =>
        \A f \in DOMAIN rinsn.ops :
            (IsImmediate(f) /\ ImmediateOf(Classes[rinsn.cls].fmt, f).signed
                /\ f \notin DOMAIN Classes[rinsn.cls].value) =>
               LET im == ImmediateOf(Classes[rinsn.cls].fmt, f)
                   x  == rinsn.ops[f]
               IN  /\ ImmFromBits(ImmUnsigned(x, im), im) = x
                   /\ (x = 0 /\ im.bits <= 13) =>
                         \A y \in -Pow2(im.bits - 1)..(Pow2(im.bits - 1) - 1) :
                            (im.lsb0 => y % 2 = 0) => ImmFromBits(ImmUnsigned(y, im), im) = y
                   /\ ImmFromBits(ExtractField(Classes[rinsn.cls].fmt, f, word), im) = x
                   /\ decoded.ops[f] = x

\* a branch with the least 13-bit immediate, -4096, was encoded and decoded
C22_NegativeBranchDecoded ==
    /\ stage = "decoded"
    /\ rinsn # NoObj
    /\ Classes[rinsn.cls].fmt = "B"
    /\ rinsn.ops["imm"] = -4096
    /\ decoded \notin {MachineDecodeError, AttributeError}
    /\ decoded.ops["imm"] = -4096


(***************************************************************************)
(* C23: after an AMO instruction commits, rd holds the word that was at    *)
(* mem[rs1] before the instruction and mem[rs1] holds op(rs2, that word);  *)
(* for amoadd mem[rs1] = (old mem[rs1] + rs2) mod 2^32, whatever rd held.  *)
(***************************************************************************)
C23_Op(op, a, old) ==
    CASE op = "amoadd"  -> AddW(a, old)
      [] op = "amoxor"  -> XorW(a, old)
      [] op = "amoor"   -> OrW(a, old)
      [] op = "amoand"  -> AndW(a, old)
      [] op = "amoswap" -> a

C23_AmoReadModifyWrite ==
    [][(phase = "executed" /\ phase' = "idle" /\ insn.op \in AmoOps) =>
        LET w   == WordIndex(intreg[insn.rs1])
            old == memory[w]
        IN  /\ insn.rd # 0 => intreg'[insn.rd] = old
            /\ memory'[w] = C23_Op(insn.op, intreg[insn.rs2], old)
      ]_vars


(***************************************************************************)
(* C24: after JALR commits, rd = (old pc + 4) mod 2^32 and pc = ((old rs1  *)
(* + imm) mod 2^32) with bit 0 cleared, for every rs1 value and every      *)
(* 12-bit signed immediate, odd sums included.                             *)
(***************************************************************************)
C24_ClearBit0(v) == <<v[1], v[2] - (v[2] % 2)>>

C24_JalrTarget ==
    [][(phase = "executed" /\ phase' = "idle" /\ insn.op = "jalr") =>
        /\ insn.rd # 0 => intreg'[insn.rd] = RegAdd(pc, Four)
        /\ pc' = C24_ClearBit0(RegAddImm(intreg[insn.rs1], insn.imm))
      ]_vars

(***************************************************************************)
(* C25: BLT and BGE decide on the signed two's-complement comparison       *)
(* (0x80000000 is less than 0), BLTU and BGEU on the unsigned one; when    *)
(* the condition holds the committed pc is old pc + imm, otherwise old     *)
(* pc + 4, and no register changes.                                        *)
(***************************************************************************)
C25_Condition(op, a, b) ==
    CASE op = "blt"  -> LtS(a, b)
      [] op = "bge"  -> ~LtS(a, b)
      [] op = "bltu" -> LtU(a, b)
      [] op = "bgeu" -> ~LtU(a, b)

C25_BranchDecision ==
    [][(phase = "executed" /\ phase' = "idle"
            /\ insn.op \in {"blt", "bge", "bltu", "bgeu"}) =>
        /\ pc' = IF C25_Condition(insn.op, intreg[insn.rs1], intreg[insn.rs2])
                 THEN RegAddImm(pc, insn.imm) ELSE RegAdd(pc, Four)
        /\ intreg' = intreg
      ]_vars


(***************************************************************************)
(* C26: for every source value and shift amount 0..31, SRL and SRLI fill   *)
(* the vacated high bits with zero and SRA and SRAI fill them with copies  *)
(* of bit 31; the register forms shift by rs2 & 0x1f.  lui x1,0xfebed;     *)
(* srai x2,x1,12 gives x2 = 0xFFFFEBED.                                    *)
(***************************************************************************)
C26_Amount(i) ==
    IF i.op \in {"srli", "srai"} THEN i.imm ELSE intreg[i.rs2][2] % 32

\* ~(~x >> k) for a negative x
C26_Shifted(i) ==
    LET src == intreg[i.rs1]
        k   == C26_Amount(i)
    IN  IF i.op \in {"sra", "srai"} /\ src[1] >= \h8000
        THEN Not32(ShrW(Not32(src), k))
        ELSE ShrW(src, k)

C26_ShiftRight ==
    [][(phase = "executed" /\ phase' = "idle"
            /\ insn.op \in {"srl", "srli", "sra", "srai"} /\ insn.rd # 0) =>
        /\ intreg'[insn.rd] = C26_Shifted(insn)
        /\ (source = "SRAITest" /\ issued = 2) => intreg'[2] = <<\hFFFF, \hEBED>>
      ]_vars


(***************************************************************************)
(* C27: SLTI sets rd to 1 iff rs1 is less than the immediate as signed     *)
(* values; SLTIU sets rd to 1 iff rs1 is less than the immediate with both *)
(* taken as unsigned 32-bit values, the immediate sign-extended first      *)
(* (imm = -1 compares as 0xFFFFFFFF); otherwise rd is 0.                   *)
(***************************************************************************)
C27_Less(i) ==
    IF i.op = "slti" THEN LtS(intreg[i.rs1], Int2W(i.imm))
    ELSE LtU(intreg[i.rs1], Int2W(i.imm))

C27_SetLessThanImm ==
    [][(phase = "executed" /\ phase' = "idle"
            /\ insn.op \in {"slti", "sltiu"} /\ insn.rd # 0) =>
        intreg'[insn.rd] = IF C27_Less(insn) THEN <<0, 1>> ELSE Zero
      ]_vars


(***************************************************************************)
(* C28: encoding a B-type instruction places imm[4:1] in word bits 8..11,  *)
(* imm[10:5] in bits 25..30, imm[11] in bit 7 and imm[12] in bit 31, and   *)
(* decode reads the 13-bit signed even immediate back from exactly those   *)
(* positions.                                                              *)
(***************************************************************************)
\* the 13-bit pattern the four slices of a word spell
C28_Bits(w) ==
    2 * WordBits(w, 8, 4) + 32 * WordBits(w, 25, 6)
        + 2048 * WordBits(w, 7, 1) + 4096 * WordBits(w, 31, 1)

C28_IsBranch(o) ==
    /\ o \notin {NoObj, MachineDecodeError, AttributeError}
    /\ Classes[o.cls].fmt = "B"

C28_BTypeLayout ==
    /\ (stage \in {"encoded", "decoded"} /\ C28_IsBranch(rinsn)) =>
            C28_Bits(word) = ImmUnsigned(rinsn.ops["imm"], Immediate(13, TRUE, TRUE))
    /\ (stage = "decoded" /\ C28_IsBranch(decoded)) =>
            decoded.ops["imm"] = ImmFromBits(C28_Bits(word), Immediate(13, TRUE, TRUE))


(***************************************************************************)
(* C29: store then load round-trips at every address, aligned or not:      *)
(* after sh(a, d) is committed lh(a) returns d & 0xFFFF, after sb(a, d)    *)
(* lb(a) returns d & 0xFF, and after sw(a, d) lw(a) returns d & 0xFFFFFFFF.*)
(***************************************************************************)
C29_Load(gran, mem, a) ==
    CASE gran = 1 -> Lb(mem, a)
      [] gran = 2 -> Lh(mem, a)
      [] gran = 4 -> Lw(mem, a)

C29_StoreLoadRoundTrip ==
    [][(phase = "executed" /\ phase' = "idle" /\ memory_update # <<>>) =>
        C29_Load(memory_update[1], memory', memory_update[2]) = memory_update[3]
      ]_vars


(***************************************************************************)
(* C30: in every state reachable by any interleaving of reset, fetch and   *)
(* commit calls, the in-flight queue holds exactly the instructions        *)
(* fetched since the last reset and not yet popped by a commit, in fetch   *)
(* order, and the internal pc equals the reset pc plus 4 times the number  *)
(* of successful fetches since that reset; a failed fetch or a commit on   *)
(* an empty queue changes neither.                                         *)
(***************************************************************************)
C30_QueueAndPc ==
    /\ [](resetlog # <<>> =>
            /\ Len(commitlog) <= Len(fetchlog)
            /\ gissued = SubSeq(fetchlog, Len(commitlog) + 1, Len(fetchlog))
            /\ gpc = resetlog[Len(resetlog)] + 4 * Len(fetchlog))
    /\ [][((call'.op = "fetch" /\ call'.out # "return")
                \/ (call'.op = "commit" /\ gissued = <<>>)) =>
            (gissued' = gissued /\ gpc' = gpc)
         ]_vars

\* after a reset to pc 4 of ADDITest: two fetches, then one commit
C30_FetchedAfterReset ==
    /\ source = "ADDITest"
    /\ resetlog = <<0, 4>>
    /\ Len(fetchlog) = 2
    /\ Len(commitlog) = 1
    /\ gissued = <<ADDITest[3]>>
    /\ gpc = 12
    /\ call.op = "commit"

====
